---- MODULE Spec2Model ----
(***************************************************************************)
(* Pixellator: a video rendered as animated ASCII art in a terminal.       *)
(*                                                                         *)
(* The module holds five state machines over one set of variables:        *)
(*   Spec       the extract -> convert -> render pipeline and main         *)
(*              (src/main.py extract_frames, convert_frames, the renderer  *)
(*              loops as queue consumers, main)                            *)
(*   SpecAnsi   the ANSI direct-write renderer against a character grid    *)
(*              (render_frames_sys_partial, fast_diff_lines)               *)
(*   SpecColor  the curses colour renderer against a cell screen           *)
(*              (render_frames_curses_color)                               *)
(*   SpecAudio  the audio player's callback and sync hints                 *)
(*              (src/audio_player.py)                                      *)
(*   SpecConv   main's choice of conversion function and renderer, and one *)
(*              frame through them (frame_to_ascii* and main)              *)
(* Each specification moves its own variables and leaves the others at     *)
(* their idle values.                                                      *)
(***************************************************************************)
EXTENDS Integers, Sequences, FiniteSets, TLC

\* ------------------------------------------------------------------ bounds
\* Most frames the video source yields before it ends.
NumFrames == 8
\* Largest --fps value tried (the queues hold 3 * fps items).
MaxFps == 2
\* Largest --batch_size value tried.
MaxBatch == 2
\* Longest frame string (characters and newlines) given to the ANSI renderer.
MaxFrameLen == 2
\* Most cells (rows * columns) of a frame given to the curses colour renderer.
MaxCells == 2
\* The addstr calls that fail between two clears of the window, at most.
MaxFailures == 1
\* Longest frame string (characters, newlines included) given to the curses
\* monochrome renderer.
MaxLineLen == 3
\* The times the terminal is resized while the monochrome renderer runs, at most.
MaxResizes == 1
\* Largest video time (in ticks) given to update_video_time.
MaxHintTime == 8
\* Most sync commands waiting in sync_queue.
MaxSync == 2
\* Most frames (samples) the audio device asks for in one callback.
MaxBlock == 2
\* Samples in audio_array.
AudioLen == 8
\* Ticks of model time per sample (the inverse of samplerate).
TicksPerSample == 2
\* Largest width and height (in pixels) of a decoded frame given to a converter.
MaxSide == 3
\* Largest --width (target width in characters) given to a converter.
MaxWidth == 2

\* ------------------------------------------------------------- variables
VARIABLES
    \* command line and environment of the pipeline (main)
    fps, batch_size, use_curses, opened,
    \* extractor process
    pcE, nread, cur, ext_cause,
    \* queues and the stop event
    raw_queue, ascii_queue, stop_event, stop_cause,
    \* converter thread
    pcC, batch, slot, ascii_frames, conv_failed,
    \* renderer thread: its position, and what stdscr.getch() returned in the
    \* loop iteration just done
    pcR, polled,
    \* main thread and the pool
    pcM, pool_closed,
    \* history: what was put on raw_queue, what the renderer dequeued and painted
    put_hist, painted,
    \* ANSI renderer (render_frames_sys_partial): its locals, the terminal size
    \* the environment reports, the terminal it writes to (character grid and
    \* cursor), and the writes of the last loop iteration
    pcA, prev_frame_lines, prev_terminal_size, term_size, term, writes,
    \* curses colour renderer (render_frames_curses_color): the terminal's
    \* COLORS and COLOR_PAIRS, the shape of the video's frames, the size the
    \* screen reports, curses_loop's locals, the pairs set by init_pair, the
    \* window's cells, and the addstr calls of the last loop iteration
    pcK, COLORS, COLOR_PAIRS, frame_shape, scr_size,
    prev_frame, max_y, max_x, color_pair_cache, next_pair_number,
    pair_table, stdscr, runs, resized, failed_writes,
    \* a call of get_color_attr followed on its own: the palette index given
    \* and the attribute returned
    attr_call,
    \* curses monochrome renderer (render_frames_curses): the size the screen
    \* reports, curses_loop's locals prev_frame_lines, max_y and max_x, the
    \* window's cells, and how often the terminal was resized
    pcL, win_size, prev_lines, win_max_y, win_max_x, window, win_resizes,
    \* audio player (AudioPlayer): its fields, whether the stream has been told
    \* to stop by the callback, the samples the last callback delivered, and
    \* whether a hint found the clocks apart since the last callback / whether
    \* the last event was the callback following such a hint
    audio_time, video_time, sync_queue, should_stop, callback_stop, delivered,
    hint_apart, callback_owed,
    \* audio player's life cycle: the audio thread's and stop()'s position, the
    \* outcome of start(), the flags, self.stream, the device's stream, and
    \* self.audio_array
    pcT, pcS, started, initialized, playback_started, stream, stream_state,
    audio_array,
    \* conversion (main's choice of functions and one frame through them): the
    \* flags --use_curses and --curses_color, the decoded frame and --width,
    \* the functions main chose, what the conversion returned and what the
    \* renderer made of it
    pcV, arg_use_curses, arg_curses_color, decoded, width_arg,
    conversion_fn, renderer_fn, converted, rendered

argsV == <<fps, batch_size, use_curses, opened>>
extV == <<pcE, nread, cur, ext_cause>>
rawV == <<raw_queue, put_hist>>
stopV == <<stop_event, stop_cause>>
convV == <<pcC, batch, slot, ascii_frames, conv_failed>>
rendV == <<pcR, painted, polled>>
mainV == <<pcM, pool_closed>>

varsPipe == <<argsV, extV, rawV, ascii_queue, stopV, convV, rendV, mainV>>

varsAnsi == <<pcA, prev_frame_lines, prev_terminal_size, term_size, term, writes>>

envK == <<COLORS, COLOR_PAIRS, frame_shape>>
cacheK == <<color_pair_cache, next_pair_number, pair_table>>
varsColor == <<pcK, envK, scr_size, prev_frame, max_y, max_x, cacheK, stdscr,
               runs, resized, failed_writes, attr_call>>

varsMono == <<pcL, win_size, prev_lines, win_max_y, win_max_x, window,
              win_resizes>>

lifeV == <<pcT, pcS, started, initialized, playback_started, stream,
           stream_state, audio_array>>
varsAudio == <<audio_time, video_time, sync_queue, should_stop, callback_stop,
               delivered, hint_apart, callback_owed, lifeV>>

inputV == <<arg_use_curses, arg_curses_color, decoded, width_arg>>
varsConv == <<pcV, inputV, conversion_fn, renderer_fn, converted, rendered>>

\* What the pipeline leaves alone.
notPipe == <<varsAnsi, varsColor, varsMono, varsAudio, varsConv>>
\* What the ANSI renderer leaves alone.
notAnsi == <<varsPipe, varsColor, varsMono, varsAudio, varsConv>>
\* What the curses colour renderer leaves alone (it sets the stop event).
notColor == <<argsV, extV, rawV, ascii_queue, convV, rendV, mainV, varsAnsi,
              varsMono, varsAudio, varsConv>>
\* What the curses monochrome renderer leaves alone (it sets the stop event).
notMono == <<argsV, extV, rawV, ascii_queue, convV, rendV, mainV, varsAnsi,
             varsColor, varsAudio, varsConv>>
\* What the audio player leaves alone.
notAudio == <<varsPipe, varsAnsi, varsColor, varsMono, varsConv>>
\* What the conversion leaves alone.
notConv == <<varsPipe, varsAnsi, varsColor, varsMono, varsAudio>>

vars == <<varsPipe, varsAnsi, varsColor, varsMono, varsAudio, varsConv>>

\* ------------------------------------------------------------- helpers
\* The end-of-stream marker put on raw_queue (None); frames are 1, 2, ...
EOS == 0

Range(s) == {s[i] : i \in 1..Len(s)}

\* Queue(maxsize=args.fps * 3)
Maxsize == fps * 3

\* Queue.put blocks while the queue holds maxsize items.
FullNever(q) == FALSE
Full(q) == Len(q) >= Maxsize

\* What a conversion function returns for one frame: an AsciiFrame that came
\* from that frame (the pixel arithmetic is modelled apart).
conversion_function(f) == [src |-> f]

\* pool.map(conversion_function, batch, chunksize=len(batch)): results in the
\* order of the inputs.
PoolMapReversed(b) == [i \in 1..Len(b) |-> conversion_function(b[Len(b) + 1 - i])]
PoolMap(b) == [i \in 1..Len(b) |-> conversion_function(b[i])]

\* Where the extractor goes when KeyboardInterrupt is caught: the except clause
\* falls into the finally block.
ExceptTargetSkipsFinally == "done"
ExceptTarget == "finally"

\* stop_event.set(), remembering who set it first.
SetStop(who) ==
    /\ stop_event' = TRUE
    /\ stop_cause' = IF stop_event THEN stop_cause ELSE who

\* The converter and the renderer are daemon threads: they end with the process
\* when main returns.
Alive == pcM # "done"

\* ------------------------------------------------------------------ Init
InitPipe ==
    /\ fps \in 1..MaxFps
    /\ batch_size \in 1..MaxBatch
    /\ use_curses \in BOOLEAN
    /\ opened \in BOOLEAN
    /\ pcE = "open" /\ nread = 0 /\ cur = EOS /\ ext_cause = "none"
    /\ raw_queue = <<>> /\ ascii_queue = <<>>
    /\ stop_event = FALSE /\ stop_cause = "none"
    /\ pcC = "loop" /\ batch = <<>> /\ slot = 0 /\ ascii_frames = <<>>
    /\ conv_failed = FALSE
    /\ pcR = "check" /\ polled = "unread"
    /\ pcM = "wait" /\ pool_closed = FALSE
    /\ put_hist = <<>> /\ painted = <<>>

\* ------------------------------------------------------------- extractor
\* cap = cv2.VideoCapture(video_path); if not cap.isOpened(): print; return
ExtOpen ==
    /\ pcE = "open"
    /\ pcE' = IF opened THEN "read" ELSE "done"
    /\ UNCHANGED <<nread, cur, ext_cause>>
    /\ UNCHANGED <<notPipe, argsV, rawV, ascii_queue, stopV, convV, rendV, mainV>>

\* ret, frame = cap.read() with ret true: the next frame of the video.
ExtRead ==
    /\ pcE = "read"
    /\ nread < NumFrames
    /\ nread' = nread + 1
    /\ cur' = nread + 1
    /\ pcE' = "put"
    /\ UNCHANGED ext_cause
    /\ UNCHANGED <<notPipe, argsV, rawV, ascii_queue, stopV, convV, rendV, mainV>>

\* cap.read() with ret false (end of video, or a read failure): break.
ExtReadEnd ==
    /\ pcE = "read"
    /\ pcE' = "finally"
    /\ ext_cause' = "notret"
    /\ UNCHANGED <<nread, cur>>
    /\ UNCHANGED <<notPipe, argsV, rawV, ascii_queue, stopV, convV, rendV, mainV>>

\* raw_queue.put(frame); time.sleep(frame_time)
ExtPut ==
    /\ pcE = "put"
    /\ ~Full(raw_queue)
    /\ raw_queue' = Append(raw_queue, cur)
    /\ put_hist' = Append(put_hist, cur)
    /\ pcE' = "read"
    /\ UNCHANGED <<nread, cur, ext_cause>>
    /\ UNCHANGED <<notPipe, argsV, ascii_queue, stopV, convV, rendV, mainV>>

\* KeyboardInterrupt raised inside the try block (in read, put or sleep).
ExtInterrupt ==
    /\ pcE \in {"read", "put"}
    /\ pcE' = ExceptTarget
    /\ ext_cause' = "interrupt"
    /\ UNCHANGED <<nread, cur>>
    /\ UNCHANGED <<notPipe, argsV, rawV, ascii_queue, stopV, convV, rendV, mainV>>

\* finally: cap.release(); raw_queue.put(None)
ExtFinally ==
    /\ pcE = "finally"
    /\ ~Full(raw_queue)
    /\ raw_queue' = Append(raw_queue, EOS)
    /\ put_hist' = Append(put_hist, EOS)
    /\ pcE' = "done"
    /\ UNCHANGED <<nread, cur, ext_cause>>
    /\ UNCHANGED <<notPipe, argsV, ascii_queue, stopV, convV, rendV, mainV>>

\* ------------------------------------------------------------- converter
\* After the for loop over the batch slots: "if not batch: continue".
AfterCollectDropsPartial(b) == IF Len(b) < batch_size THEN "loop" ELSE "convert"
AfterCollect(b) == IF b = <<>> THEN "loop" ELSE "convert"

\* while not stop_event.is_set(): batch = []
ConvLoop ==
    /\ Alive
    /\ pcC = "loop"
    /\ IF stop_event
         THEN pcC' = "done" /\ UNCHANGED <<batch, slot>>
         ELSE pcC' = "collect" /\ batch' = <<>> /\ slot' = 0
    /\ UNCHANGED <<ascii_frames, conv_failed>>
    /\ UNCHANGED <<notPipe, argsV, extV, rawV, ascii_queue, stopV, rendV, mainV>>

\* frame = raw_queue.get(timeout=0.01) returning an item: None sets the stop
\* event and leaves the for loop, a frame joins the batch.
ConvGet ==
    /\ Alive
    /\ pcC = "collect"
    /\ raw_queue # <<>>
    /\ raw_queue' = Tail(raw_queue)
    /\ IF Head(raw_queue) = EOS
         THEN /\ SetStop("eos")
              /\ pcC' = AfterCollect(batch)
              /\ UNCHANGED <<batch, slot>>
         ELSE /\ batch' = Append(batch, Head(raw_queue))
              /\ slot' = slot + 1
              /\ pcC' = IF slot + 1 = batch_size THEN AfterCollect(batch') ELSE "collect"
              /\ UNCHANGED stopV
    /\ UNCHANGED <<ascii_frames, conv_failed, put_hist>>
    /\ UNCHANGED <<notPipe, argsV, extV, ascii_queue, rendV, mainV>>

\* raw_queue.get(timeout=0.01) raising queue.Empty: break.
ConvGetEmpty ==
    /\ Alive
    /\ pcC = "collect"
    /\ raw_queue = <<>>
    /\ pcC' = AfterCollect(batch)
    /\ UNCHANGED <<batch, slot, ascii_frames, conv_failed>>
    /\ UNCHANGED <<notPipe, argsV, extV, rawV, ascii_queue, stopV, rendV, mainV>>

\* ascii_frames = pool.map(conversion_function, batch, chunksize=len(batch))
ConvMap ==
    /\ Alive
    /\ pcC = "convert"
    /\ ~pool_closed
    /\ ascii_frames' = PoolMap(batch)
    /\ pcC' = "put"
    /\ UNCHANGED <<batch, slot, conv_failed>>
    /\ UNCHANGED <<notPipe, argsV, extV, rawV, ascii_queue, stopV, rendV, mainV>>

\* pool.map raising (the conversion function raised in a worker, or the pool was
\* closed by main): except Exception: print; break.
ConvMapRaises ==
    /\ Alive
    /\ pcC = "convert"
    /\ conv_failed' = TRUE
    /\ pcC' = "done"
    /\ UNCHANGED <<batch, slot, ascii_frames>>
    /\ UNCHANGED <<notPipe, argsV, extV, rawV, ascii_queue, stopV, rendV, mainV>>

\* for af in ascii_frames: ascii_queue.put((af, conversion_time_ms))
ConvPut ==
    /\ Alive
    /\ pcC = "put"
    /\ ~Full(ascii_queue)
    /\ ascii_queue' = Append(ascii_queue, Head(ascii_frames))
    /\ ascii_frames' = Tail(ascii_frames)
    /\ pcC' = IF Tail(ascii_frames) = <<>> THEN "loop" ELSE "put"
    /\ UNCHANGED <<batch, slot, conv_failed>>
    /\ UNCHANGED <<notPipe, argsV, extV, rawV, stopV, rendV, mainV>>

\* -------------------------------------------------------------- renderer
\* What stdscr.getch() may return with nodelay: no key, or the key 'q'.  The
\* ANSI renderer reads no keys.
Getch == IF use_curses THEN {"none", "q"} ELSE {"unread"}

\* key == ord('q')
IsQuitNever(key) == FALSE
IsQuit(key) == key = "q"

\* key = stdscr.getch(); if key == ord('q'): stop_event.set()
KeyPressed(key) ==
    /\ polled' = key
    /\ IF IsQuit(key) THEN SetStop("key") ELSE UNCHANGED stopV

\* while not stop_event.is_set(): ... ; the loop's exit ends the renderer.
RendCheck ==
    /\ Alive
    /\ pcR = "check"
    /\ pcR' = IF stop_event THEN "done" ELSE "get"
    /\ polled' = IF stop_event THEN polled ELSE "unread"
    /\ UNCHANGED painted
    /\ UNCHANGED <<notPipe, argsV, extV, rawV, ascii_queue, stopV, convV, mainV>>

\* ascii_queue.get(timeout=...) returning a frame, which is painted; the curses
\* renderers then read the keyboard.
RendGet ==
    /\ Alive
    /\ pcR = "get"
    /\ ascii_queue # <<>>
    /\ ascii_queue' = Tail(ascii_queue)
    /\ painted' = Append(painted, Head(ascii_queue))
    /\ \E key \in Getch : KeyPressed(key)
    /\ pcR' = "check"
    /\ UNCHANGED <<notPipe, argsV, extV, rawV, convV, mainV>>

\* ascii_queue.get raising queue.Empty: the curses renderers read the keyboard;
\* continue.
RendEmpty ==
    /\ Alive
    /\ pcR = "get"
    /\ ascii_queue = <<>>
    /\ \E key \in Getch : KeyPressed(key)
    /\ pcR' = "check"
    /\ UNCHANGED painted
    /\ UNCHANGED <<notPipe, argsV, extV, rawV, ascii_queue, convV, mainV>>

\* ------------------------------------------------------------------ main
\* while not stop_event.is_set(): time.sleep(0.1) leaving the loop.
MainWake ==
    /\ pcM = "wait"
    /\ stop_event
    /\ pcM' = "stop"
    /\ UNCHANGED pool_closed
    /\ UNCHANGED <<notPipe, argsV, extV, rawV, ascii_queue, stopV, convV, rendV>>

\* except KeyboardInterrupt: pass
MainInterrupt ==
    /\ pcM = "wait"
    /\ pcM' = "stop"
    /\ UNCHANGED pool_closed
    /\ UNCHANGED <<notPipe, argsV, extV, rawV, ascii_queue, stopV, convV, rendV>>

\* stop_event.set()
MainSetStop ==
    /\ pcM = "stop"
    /\ SetStop("interrupt")
    /\ pcM' = "close"
    /\ UNCHANGED pool_closed
    /\ UNCHANGED <<notPipe, argsV, extV, rawV, ascii_queue, convV, rendV>>

\* renderer_thread.join(timeout=1); converter_thread.join(timeout=1);
\* pool.close(); pool.join()
MainJoinClose ==
    /\ pcM = "close"
    /\ pool_closed' = TRUE
    /\ pcM' = "terminate"
    /\ UNCHANGED <<notPipe, argsV, extV, rawV, ascii_queue, stopV, convV, rendV>>

\* extractor_process.terminate(); join; the queues are closed; the completion
\* message is printed and main returns.
MainTerminate ==
    /\ pcM = "terminate"
    /\ pcE' = IF pcE = "done" THEN "done" ELSE "killed"
    /\ pcM' = "done"
    /\ UNCHANGED <<nread, cur, ext_cause, pool_closed>>
    /\ UNCHANGED <<notPipe, argsV, rawV, ascii_queue, stopV, convV, rendV>>

NextPipe ==
    \/ ExtOpen \/ ExtRead \/ ExtReadEnd \/ ExtPut \/ ExtInterrupt \/ ExtFinally
    \/ ConvLoop \/ ConvGet \/ ConvGetEmpty \/ ConvMap \/ ConvMapRaises \/ ConvPut
    \/ RendCheck \/ RendGet \/ RendEmpty
    \/ MainWake \/ MainInterrupt \/ MainSetStop \/ MainJoinClose \/ MainTerminate

\* =========================================================== ANSI renderer
\* render_frames_sys_partial writing to a terminal: a character grid with a
\* cursor.  Rows and columns of the grid count from 1, as in ESC[<row>;1H.

NL == "\n"
\* The lightest and the darkest glyph of ASCII_CHARS.
AnsiChars == {" ", "@"}

\* What frame_to_ascii writes for one pixel, "\033[38;2;{r};{g};{b}m{char}\033[0m",
\* taken as one element of a line: a black and a white pixel.  ESC spells the
\* one character \033.
BlackPixel == "ESC[38;2;0;0;0m ESC[0m"
WhitePixel == "ESC[38;2;255;255;255m@ESC[0m"
ColouredCells == {BlackPixel, WhitePixel}

\* The number of characters of an element of a line.
CharLen(c) == IF c \in ColouredCells THEN Len(c) - 4 ELSE 1

\* len(line): the number of characters, those of escape sequences included.
RECURSIVE StrLen(_)
StrLen(line) ==
    IF line = <<>> THEN 0 ELSE CharLen(Head(line)) + StrLen(Tail(line))

\* The frame strings the renderer may receive: main gives it the frames of
\* frame_to_ascii, coloured pixels and newlines.
FrameStrings == UNION {[1..n -> ColouredCells \cup {NL}] : n \in 0..MaxFrameLen}

\* Terminal sizes shutil.get_terminal_size() may report.
TermSizes == {[columns |-> 80, lines |-> 24], [columns |-> 100, lines |-> 30]}

\* The part of the terminal the model keeps: enough rows and columns for any
\* frame string of the bound.
GridRows == MaxFrameLen + 1
GridCols == MaxFrameLen + 1
BlankGrid == [r \in 1..GridRows |-> [c \in 1..GridCols |-> " "]]

\* prev_frame_lines = None (a list of lines is never empty)
NoneLines == <<>>

Max(a, b) == IF a >= b THEN a ELSE b
Min(a, b) == IF a <= b THEN a ELSE b
Abs(x) == IF x >= 0 THEN x ELSE -x

\* ascii_frame.split("\n")
RECURSIVE Split(_)
Split(str) ==
    IF \E i \in 1..Len(str) : str[i] = NL
      THEN LET i == CHOOSE k \in 1..Len(str) :
                        str[k] = NL /\ \A m \in 1..(k - 1) : str[m] # NL
           IN  <<SubSeq(str, 1, i - 1)>> \o Split(SubSeq(str, i + 1, Len(str)))
      ELSE <<str>>

\* What is written to stdout: escape sequences and text.
HIDE_CURSOR == [k |-> "hide"]
SHOW_CURSOR == [k |-> "show"]
CLEAR_SCREEN == [k |-> "clear"]
GOTO_FORMAT(row) == [k |-> "goto", row |-> row]
Text(str) == [k |-> "text", s |-> str]

\* new_lines[i] if i < n_new else "" (i counts from 0)
LineAt(lines, i) == IF i < Len(lines) THEN lines[i + 1] ELSE <<>>

\* One iteration of fast_diff_lines' loop: whether index i is appended.  Two
\* lines of the same number of characters differ in some character exactly
\* when they differ as sequences of elements.
LineDiffers(new_lines, old_lines, i) ==
    /\ ~(i >= Len(new_lines) /\ i >= Len(old_lines))
    /\ LET new_line == LineAt(new_lines, i)
           old_line == LineAt(old_lines, i)
       IN  \/ StrLen(new_line) # StrLen(old_line)
           \/ new_line # old_line

\* fast_diff_lines: the indices of the differing lines, ascending.
all_lines(new_lines, old_lines, max_lines) == [i \in 1..max_lines |-> i - 1]
fast_diff_lines(new_lines, old_lines, max_lines) ==
    SelectSeq([i \in 1..max_lines |-> i - 1],
              LAMBDA i : LineDiffers(new_lines, old_lines, i))

Spaces(n) == [j \in 1..n |-> " "]

\* The line written for index i: when len(new_line) < len(old_line), spaces
\* are appended to make up the difference of the two len().
PaddedLine(frame_lines, prev, i) ==
    LET new_line == frame_lines[i + 1]
    IN  IF i < Len(prev) /\ StrLen(new_line) < StrLen(prev[i + 1])
          THEN new_line \o Spaces(StrLen(prev[i + 1]) - StrLen(new_line))
          ELSE new_line

\* Which differing indices get an entry in output_buffer: if i < len(frame_lines).
WrittenIndex(frame_lines, i) == i < Len(frame_lines)

\* output_buffer after the frame was examined: the whole frame when there is no
\* mirror, otherwise one entry per differing line of the new frame.
output_buffer(ascii_frame, frame_lines, prev) ==
    IF prev = NoneLines
      THEN << <<Text(ascii_frame)>> >>
      ELSE LET max_lines == Max(Len(frame_lines), Len(prev))
               diff_indices == fast_diff_lines(frame_lines, prev, max_lines)
               kept == SelectSeq(diff_indices,
                                 LAMBDA i : WrittenIndex(frame_lines, i))
           IN  [n \in 1..Len(kept) |->
                   <<GOTO_FORMAT(kept[n] + 1),
                     Text(PaddedLine(frame_lines, prev, kept[n]))>>]

\* "".join(output_buffer)
RECURSIVE Join(_)
Join(parts) == IF parts = <<>> THEN <<>> ELSE Head(parts) \o Join(Tail(parts))

\* The terminal scrolls by n lines: the top rows leave the screen and blank
\* rows come in below the rows the model keeps.
ScrollUp(grid, n) ==
    [r \in 1..GridRows |-> IF r + n <= GridRows THEN grid[r + n] ELSE BlankGrid[r]]

\* The terminal: n newlines typed at the cursor; a newline on the last line of
\* the terminal scrolls it.
LineFeeds(t, n) ==
    [t EXCEPT !.grid = ScrollUp(@, Max(0, t.row + n - term_size.lines)),
              !.row = Min(t.row + n, term_size.lines),
              !.col = 1]

\* What a cell of the terminal shows for a character: a space shows nothing,
\* whatever its colour.
Shows(c) == IF c = BlackPixel THEN " " ELSE c

\* The terminal: a text without newline typed at the cursor; each character
\* (or coloured character) takes one cell.  Cells outside the part of the
\* terminal the model keeps are not recorded.
TypeRun(t, str) ==
    [t EXCEPT !.grid = [r \in 1..GridRows |-> [c \in 1..GridCols |->
                           IF r = t.row /\ c >= t.col /\ c < t.col + Len(str)
                             THEN Shows(str[c - t.col + 1]) ELSE t.grid[r][c]]],
              !.col = @ + Len(str)]

\* The length of the longest prefix of str that is all newlines or has none.
LeadingRun(str) ==
    CHOOSE n \in 1..Len(str) :
        /\ \A m \in 1..n : (str[m] = NL) <=> (str[1] = NL)
        /\ n < Len(str) => ~((str[n + 1] = NL) <=> (str[1] = NL))

\* The terminal: a text typed at the cursor.
RECURSIVE TypeText(_, _)
TypeText(t, str) ==
    IF str = <<>> THEN t
    ELSE LET n == LeadingRun(str)
             rest == SubSeq(str, n + 1, Len(str))
         IN  IF str[1] = NL THEN TypeText(LineFeeds(t, n), rest)
             ELSE TypeText(TypeRun(t, SubSeq(str, 1, n)), rest)

\* The terminal: one escape sequence or text.
ApplyTok(t, tok) ==
    CASE tok.k = "clear" -> [t EXCEPT !.grid = BlankGrid, !.row = 1, !.col = 1]
      [] tok.k = "goto" -> [t EXCEPT !.row = tok.row, !.col = 1]
      [] tok.k = "text" -> TypeText(t, tok.s)
      [] tok.k = "hide" -> [t EXCEPT !.cursor = "hidden"]
      [] tok.k = "show" -> [t EXCEPT !.cursor = "shown"]

RECURSIVE ApplyWrite(_, _)
ApplyWrite(t, w) ==
    IF w = <<>> THEN t ELSE ApplyWrite(ApplyTok(t, Head(w)), Tail(w))

RECURSIVE ApplyWrites(_, _)
ApplyWrites(t, ws) ==
    IF ws = <<>> THEN t ELSE ApplyWrites(ApplyWrite(t, Head(ws)), Tail(ws))

\* The state before render_frames_sys_partial runs: the calibration screen
\* has reset the terminal (blank, cursor at home).
InitAnsi ==
    /\ pcA = "start"
    /\ prev_frame_lines = NoneLines
    /\ term_size \in TermSizes
    /\ prev_terminal_size = term_size
    /\ term = [grid |-> BlankGrid, row |-> 1, col |-> 1, cursor |-> "shown"]
    /\ writes = <<>>

\* prev_terminal_size = shutil.get_terminal_size(); the cursor is hidden.
AnsiStart ==
    /\ pcA = "start"
    /\ prev_terminal_size' = term_size
    /\ writes' = << <<HIDE_CURSOR>> >>
    /\ term' = ApplyWrites(term, writes')
    /\ pcA' = "loop"
    /\ UNCHANGED <<prev_frame_lines, term_size>>
    /\ UNCHANGED notAnsi

\* The operator resizes the terminal window.
AnsiResize ==
    /\ pcA = "loop"
    /\ \E sz \in TermSizes : sz # term_size /\ term_size' = sz
    /\ UNCHANGED <<pcA, prev_frame_lines, prev_terminal_size, term, writes>>
    /\ UNCHANGED notAnsi

\* What one loop iteration writes: the clear sequence after a resize, then the
\* joined output_buffer when it is not empty.
LoopWritesNoClear(terminal_resized, buffer) ==
    IF buffer # <<>> THEN <<Join(buffer)>> ELSE <<>>
LoopWrites(terminal_resized, buffer) ==
    (IF terminal_resized THEN << <<CLEAR_SCREEN>> >> ELSE <<>>)
        \o (IF buffer # <<>> THEN <<Join(buffer)>> ELSE <<>>)

\* term_height when shutil.get_terminal_size() raises in the finally block.
FallbackHeight == 25

\* finally: sys.stdout.write("\n" * term_height); sys.stdout.write(SHOW_CURSOR)
FinallyWritesPadOnly(term_height) ==
    << <<Text([j \in 1..term_height |-> NL])>> >>
FinallyWrites(term_height) ==
    << <<Text([j \in 1..term_height |-> NL])>>, <<SHOW_CURSOR>> >>

\* One iteration of the loop in which ascii_queue.get returned ascii_frame.
AnsiFrame ==
    /\ pcA = "loop"
    /\ \E ascii_frame \in FrameStrings :
         \E frame_lines \in {Split(ascii_frame)} :
           LET terminal_resized == term_size # prev_terminal_size
               prev == IF terminal_resized THEN NoneLines ELSE prev_frame_lines
           IN  \E buffer \in {output_buffer(ascii_frame, frame_lines, prev)} :
                 /\ writes' = LoopWrites(terminal_resized, buffer)
                 /\ term' = ApplyWrites(term, writes')
                 /\ prev_frame_lines' = frame_lines
                 /\ prev_terminal_size' = term_size
    /\ UNCHANGED <<pcA, term_size>>
    /\ UNCHANGED notAnsi

\* The writes of one loop iteration made before an exception: none, or the
\* clear sequence, or all of them.
WritesBefore(terminal_resized, buffer) ==
    {SubSeq(LoopWrites(terminal_resized, buffer), 1, n)
       : n \in 0..Len(LoopWrites(terminal_resized, buffer))}

\* One iteration of the loop in which processing the frame raises: before
\* anything is written, after the clear sequence, or after the frame's write;
\* the exception leaves the loop through the finally block, and the mirror is
\* not updated.
AnsiFrameRaises ==
    /\ pcA = "loop"
    /\ LET terminal_resized == term_size # prev_terminal_size
           prev == IF terminal_resized THEN NoneLines ELSE prev_frame_lines
       IN  \E made \in UNION {WritesBefore(terminal_resized,
                                            output_buffer(f, Split(f), prev))
                               : f \in FrameStrings} :
           \E term_height \in {term_size.lines, FallbackHeight} :
             LET cleared == terminal_resized /\ made # <<>>
             IN  /\ writes' = made \o FinallyWrites(term_height)
                 /\ term' = ApplyWrites(term, writes')
                 /\ prev_frame_lines' = IF cleared THEN NoneLines
                                        ELSE prev_frame_lines
                 /\ prev_terminal_size' = IF cleared THEN term_size
                                          ELSE prev_terminal_size
    /\ pcA' = "done"
    /\ UNCHANGED term_size
    /\ UNCHANGED notAnsi

\* The loop ends (stop_event set); finally: the newline pad and the cursor shown.
AnsiExit ==
    /\ pcA = "loop"
    /\ \E term_height \in {term_size.lines, FallbackHeight} :
         writes' = FinallyWrites(term_height)
    /\ term' = ApplyWrites(term, writes')
    /\ pcA' = "done"
    /\ UNCHANGED <<prev_frame_lines, prev_terminal_size, term_size>>
    /\ UNCHANGED notAnsi

NextAnsi == AnsiStart \/ AnsiResize \/ AnsiFrame \/ AnsiFrameRaises \/ AnsiExit

\* ================================================= curses colour renderer
\* render_frames_curses_color writing to a curses window.  A frame is a list
\* of rows of cells <<character, color_index>>; a window cell is
\* <<character, attribute>>, the attribute being a colour pair number or
\* A_NORMAL.  Rows and columns count from 0, as in the code.

\* curses.A_NORMAL; curses.color_pair(n) is modelled by n >= 1.
A_NORMAL == 0

\* The cells <<glyph, xterm-256 palette index>> tried: two glyphs in blue (21)
\* and one of them in red (196).
Cells == {<<"@", 21>>, <<"#", 21>>, <<"@", 196>>}

\* The cell of the blank mirror: ('', -1).
BlankCell == <<"", -1>>
\* A cell of a cleared window.
ClearedCell == <<" ", A_NORMAL>>

\* Shapes <<rows, columns>> a video's frames may have.
FrameShapes == {sh \in (1..MaxCells) \X (1..MaxCells) : sh[1] * sh[2] <= MaxCells}

\* The frames of a shape: rows of cells, indexed from 0.
FramesOf(sh) == [0..(sh[1] - 1) -> [0..(sh[2] - 1) -> Cells]]

\* Sizes <<lines, columns>> stdscr.getmaxyx() may report: large enough for any
\* frame, or one line, or one column.
ScreenSizes == {<<MaxCells, MaxCells>>, <<1, MaxCells>>, <<MaxCells, 1>>}

\* COLORS and COLOR_PAIRS of the terminals tried: 256 or 8 colours; pairs
\* enough for every colour, or pair 1 only.
ColorsValues == {256, 8}
ColorPairsValues == {64, 2}

\* The window: the cells the model keeps.
ClearedWindow == [y \in 0..(MaxCells - 1) |-> [x \in 0..(MaxCells - 1) |-> ClearedCell]]

\* len() of a row or frame indexed from 0.
Len0(f) == Cardinality(DOMAIN f)

\* No call of get_color_attr is followed.
NoCall == [color_index |-> -1, attr |-> A_NORMAL]

\* [('', -1)] * n
BlankRow(n) == [x \in 0..(n - 1) |-> BlankCell]

\* mapped_color in get_color_attr.
MappedColor(color_index) ==
    IF COLORS < 256 THEN color_index % COLORS ELSE color_index

\* get_color_attr on the renderer's state st (the cache, next_pair_number,
\* the pairs initialised, and the palette indices for which curses.init_pair
\* raises curses.error): the attribute returned and the state after.
get_color_attr_uncached(st, color_index) ==
    IF st.next >= COLOR_PAIRS \/ color_index \in st.raising
      THEN [st |-> st, attr |-> A_NORMAL]
      ELSE [st |-> [st EXCEPT
                       !.cache = [i \in DOMAIN @ \cup {color_index} |->
                                    IF i = color_index THEN st.next ELSE @[i]],
                       !.pairs = @ @@ (st.next :> MappedColor(color_index)),
                       !.next = @ + 1],
            attr |-> st.next]
get_color_attr(st, color_index) ==
    IF color_index \in DOMAIN st.cache
      THEN [st |-> st, attr |-> st.cache[color_index]]
      ELSE IF st.next >= COLOR_PAIRS \/ color_index \in st.raising
             THEN [st |-> st, attr |-> A_NORMAL]
             ELSE [st |-> [st EXCEPT
                              !.cache = @ @@ (color_index :> st.next),
                              !.pairs = @ @@ (st.next :> MappedColor(color_index)),
                              !.next = @ + 1],
                   attr |-> st.next]

\* stdscr.addstr(y, x, str, attr): the characters land in the cells of line y
\* from column x on that lie inside the window; a failure (curses.error) is
\* swallowed by the caller.
addstr(win, size, y, x, str, attr) ==
    [yy \in DOMAIN win |->
        [xx \in DOMAIN win[yy] |->
            IF yy = y /\ yy < size[1] /\ xx >= x /\ xx < x + Len(str) /\ xx < size[2]
              THEN <<str[xx - x + 1], attr>>
              ELSE win[yy][xx]]]

\* The inner while loop's second break: the next cell's attribute differs.
AttrNeverBreaks(next_attr, current_attr) == FALSE
AttrBreaks(next_attr, current_attr) == next_attr # current_attr

\* The inner while loop's first break: the next cell is the mirror's cell.
CellAlwaysChanged(new_row, old_row, j) == TRUE
CellChanged(new_row, old_row, j) == new_row[j] # old_row[j]

\* The inner while loop: extends the segment from column j while the cells
\* differ from the mirror and resolve to current_attr.  Gives the column after
\* the segment, its characters and the state.
RECURSIVE ExtendRun(_, _, _, _, _, _, _)
ExtendRun(st, new_row, old_row, j, limit, current_attr, segment_chars) ==
    IF j < limit /\ CellChanged(new_row, old_row, j)
      THEN LET g == get_color_attr(st, new_row[j][2])
           IN  IF AttrBreaks(g.attr, current_attr)
                 THEN [st |-> g.st, j |-> j, chars |-> segment_chars]
                 ELSE ExtendRun(g.st, new_row, old_row, j + 1, limit, current_attr,
                                Append(segment_chars, new_row[j][1]))
      ELSE [st |-> st, j |-> j, chars |-> segment_chars]

\* The outer while loop over the columns of line i, from column j.  An addstr
\* that starts at a position in st.fails raises curses.error and draws
\* nothing; the except clause passes.  Each addstr call is recorded in runs,
\* with the cells of the new frame it was to draw.
RECURSIVE WalkRow(_, _, _, _, _, _, _)
WalkRow(st, size, i, new_row, old_row, j, limit) ==
    IF j >= limit
      THEN st
      ELSE IF new_row[j] = old_row[j]
             THEN WalkRow(st, size, i, new_row, old_row, j + 1, limit)
             ELSE LET g == get_color_attr(st, new_row[j][2])
                      e == ExtendRun(g.st, new_row, old_row, j + 1, limit, g.attr,
                                     <<new_row[j][1]>>)
                      ok == <<i, j>> \notin st.fails
                      st2 == [e.st EXCEPT
                                 !.win = IF ok
                                           THEN addstr(@, size, i, j, e.chars, g.attr)
                                           ELSE @,
                                 !.runs = Append(@,
                                     [y |-> i, x |-> j, str |-> e.chars,
                                      attr |-> g.attr, ok |-> ok,
                                      cells |-> [k \in 1..Len(e.chars) |->
                                                    new_row[j + k - 1]]])]
                  IN  WalkRow(st2, size, i, new_row, old_row, e.j, limit)

\* The for loop over the lines, from line i.
RECURSIVE WalkRows(_, _, _, _, _, _)
WalkRows(st, size, new_frame, mirror, i, nrows) ==
    IF i >= nrows
      THEN st
      ELSE LET new_row == new_frame[i]
               old_row == IF i < Len0(mirror) THEN mirror[i]
                          ELSE BlankRow(Len0(new_row))
           IN  WalkRows(WalkRow(st, size, i, new_row, old_row, 0,
                                Min(Len0(new_row), size[2])),
                        size, new_frame, mirror, i + 1, nrows)

\* The state when curses_loop has run its set-up: prev_frame = [], the size
\* read, no colour pair yet, a cleared window.
InitColor ==
    /\ pcK = "loop"
    /\ COLORS \in ColorsValues
    /\ COLOR_PAIRS \in ColorPairsValues
    /\ frame_shape \in FrameShapes
    /\ scr_size \in ScreenSizes
    /\ prev_frame = <<>>
    /\ max_y = scr_size[1] /\ max_x = scr_size[2]
    /\ color_pair_cache = <<>> /\ next_pair_number = 1 /\ pair_table = <<>>
    /\ stdscr = ClearedWindow
    /\ runs = <<>>
    /\ resized = FALSE
    /\ failed_writes = 0
    /\ attr_call = NoCall

\* The operator resizes the terminal window.
ColorResize ==
    /\ pcK = "loop"
    /\ \E sz \in ScreenSizes : sz # scr_size /\ scr_size' = sz
    /\ UNCHANGED <<pcK, envK, prev_frame, max_y, max_x, cacheK, stdscr, runs, resized,
                   failed_writes, attr_call>>
    /\ UNCHANGED <<stopV, notColor>>

\* The positions <<line, column>> of a frame's cells.
Positions(sh) == (0..(sh[1] - 1)) \X (0..(sh[2] - 1))

\* The addstr calls among runs that raised.
FailedRuns(rs) == Cardinality({n \in 1..Len(rs) : ~rs[n].ok})

\* The body of the loop for new_frame when the addstr calls at the positions
\* fails raise curses.error; q tells whether the getch at its end returns 'q'.
ColorIteration(new_frame, fails) ==
    LET changed == scr_size[1] # max_y \/ scr_size[2] # max_x
        mirror == IF changed
                    THEN [y \in 0..(scr_size[1] - 1) |-> BlankRow(scr_size[2])]
                    ELSE prev_frame
        st0 == [cache |-> color_pair_cache, next |-> next_pair_number,
                pairs |-> pair_table,
                win |-> IF changed THEN ClearedWindow ELSE stdscr,
                runs |-> <<>>, fails |-> fails, raising |-> {}]
    IN  \E st1 \in {WalkRows(st0, scr_size, new_frame, mirror, 0,
                             Min(Len0(new_frame), scr_size[1]))} :
           /\ max_y' = scr_size[1] /\ max_x' = scr_size[2]
           /\ color_pair_cache' = st1.cache
           /\ next_pair_number' = st1.next
           /\ pair_table' = st1.pairs
           /\ stdscr' = st1.win
           /\ runs' = st1.runs
           /\ prev_frame' = new_frame
           /\ resized' = changed
           /\ failed_writes' = (IF changed THEN 0 ELSE failed_writes)
                                  + FailedRuns(st1.runs)
           /\ \E q \in BOOLEAN : IF q THEN SetStop("key") ELSE UNCHANGED stopV

\* One iteration of the loop in which ascii_queue.get returned new_frame and
\* no addstr raised.
ColorFrame ==
    /\ pcK = "loop"
    /\ ~stop_event
    /\ \E new_frame \in FramesOf(frame_shape) : ColorIteration(new_frame, {})
    /\ UNCHANGED <<pcK, envK, scr_size, attr_call>>
    /\ UNCHANGED notColor

\* One iteration of the loop in which ascii_queue.get returned new_frame and
\* an addstr raised curses.error, which the loop swallows.
ColorFrameFails ==
    /\ pcK = "loop"
    /\ ~stop_event
    /\ \E new_frame \in FramesOf(frame_shape),
          fails \in SUBSET Positions(frame_shape) :
         /\ ColorIteration(new_frame, fails)
         /\ FailedRuns(runs') >= 1
         /\ failed_writes' <= MaxFailures
    /\ UNCHANGED <<pcK, envK, scr_size, attr_call>>
    /\ UNCHANGED notColor

\* An iteration in which ascii_queue.get raised queue.Empty: getch, continue.
ColorEmpty ==
    /\ pcK = "loop"
    /\ ~stop_event
    /\ \E q \in BOOLEAN : IF q THEN SetStop("key") ELSE UNCHANGED stopV
    /\ UNCHANGED <<pcK, envK, scr_size, prev_frame, max_y, max_x, cacheK, stdscr,
                   runs, resized, failed_writes, attr_call>>
    /\ UNCHANGED notColor

\* while not stop_event.is_set() ends the loop.
ColorExit ==
    /\ pcK = "loop"
    /\ stop_event
    /\ pcK' = "done"
    /\ UNCHANGED <<envK, scr_size, prev_frame, max_y, max_x, cacheK, stdscr,
                   runs, resized, failed_writes, attr_call>>
    /\ UNCHANGED <<stopV, notColor>>

NextColor == ColorResize \/ ColorFrame \/ ColorEmpty \/ ColorExit

\* The palette indices get_color_attr is called with, and the COLOR_PAIRS of
\* the terminals tried for the calls: pair 1 only, pairs 1 and 2, pairs enough
\* for every index.
PaletteTried == {21, 46, 196, 226}
PairsTried == {2, 3, 64}

\* get_color_attr before any call: an empty cache, next_pair_number = 1.
InitPairs ==
    /\ pcK = "calls"
    /\ COLORS \in ColorsValues
    /\ COLOR_PAIRS \in PairsTried
    /\ frame_shape = <<1, 1>>
    /\ scr_size = <<MaxCells, MaxCells>>
    /\ prev_frame = <<>>
    /\ max_y = scr_size[1] /\ max_x = scr_size[2]
    /\ color_pair_cache = <<>> /\ next_pair_number = 1 /\ pair_table = <<>>
    /\ stdscr = ClearedWindow
    /\ runs = <<>>
    /\ resized = FALSE
    /\ failed_writes = 0
    /\ attr_call = NoCall

\* One call get_color_attr(color_index); raises tells whether curses.init_pair,
\* if it is called, raises curses.error.
GetColorAttr ==
    /\ pcK = "calls"
    /\ \E color_index \in PaletteTried, raises \in BOOLEAN :
         \E g \in {get_color_attr(
                      [cache |-> color_pair_cache, next |-> next_pair_number,
                       pairs |-> pair_table,
                       raising |-> IF raises THEN {color_index} ELSE {}],
                      color_index)} :
            /\ color_pair_cache' = g.st.cache
            /\ next_pair_number' = g.st.next
            /\ pair_table' = g.st.pairs
            /\ attr_call' = [color_index |-> color_index, attr |-> g.attr]
    /\ UNCHANGED <<pcK, envK, scr_size, prev_frame, max_y, max_x, stdscr, runs,
                   resized, failed_writes>>
    /\ UNCHANGED <<stopV, notColor>>

NextPairs == GetColorAttr

\* The colour renderer on a window whose writes may fail.
NextColorFail == NextColor \/ ColorFrameFails

\* ============================================= curses monochrome renderer
\* render_frames_curses writing to a curses window.  A frame is a string of
\* glyphs and newlines; a window cell is <<character, A_NORMAL>>.  Lines and
\* columns count from 0, as in the code.  The window is as large as getmaxyx
\* reported when the frame is drawn, so move, clrtoeol and addstr inside it do
\* not raise.

\* The frame strings the renderer may receive.
MonoStrings == UNION {[1..n -> AnsiChars \cup {NL}] : n \in 0..MaxLineLen}

\* The part of the window the model keeps: enough lines and columns for any
\* frame string of the bound.
WinRows == MaxLineLen + 1
WinCols == MaxLineLen + 2

\* Sizes <<lines, columns>> stdscr.getmaxyx() may report: wide enough for any
\* line, or three columns wide.
WinSizes == {<<WinRows, WinCols>>, <<WinRows, 3>>}

\* A cleared window.
BlankWin == [y \in 0..(WinRows - 1) |-> [x \in 0..(WinCols - 1) |-> ClearedCell]]

\* stdscr.move(y, x); stdscr.clrtoeol()
clrtoeol(w, y, x) ==
    [w EXCEPT ![y] = [c \in DOMAIN w[y] |-> IF c >= x THEN ClearedCell ELSE w[y][c]]]

\* new_line[a:b] (a and b count from 0, b excluded)
Slice(line, a, b) == SubSeq(line, a + 1, b)

\* The condition of the whole-line rewrite.
RewriteWhole(new_line, old_line, max_width) ==
    /\ Len(new_line) <= max_width
    /\ Abs(Len(new_line) - Len(old_line)) > Len(new_line) \div 2

\* start_diff after the first while loop.
StartDiff(new_line, old_line) ==
    LET min_len == Min(Len(new_line), Len(old_line))
    IN  CHOOSE d \in 0..min_len :
            /\ \A j \in 0..(d - 1) : new_line[j + 1] = old_line[j + 1]
            /\ d < min_len => new_line[d + 1] # old_line[d + 1]

\* end_diff after the second while loop (entered when start_diff < min_len).
EndDiff(new_line, old_line, start_diff) ==
    LET min_len == Min(Len(new_line), Len(old_line))
    IN  CHOOSE e \in start_diff..(min_len - 1) :
            /\ \A j \in (e + 1)..(min_len - 1) : new_line[j + 1] = old_line[j + 1]
            /\ e > start_diff => new_line[e + 1] # old_line[e + 1]

\* The character-level update of line i: the differing middle, then the
\* excess of a longer new line or spaces over the excess of a longer old line.
UpdateChars(w, size, i, new_line, old_line, max_width) ==
    LET min_len == Min(Len(new_line), Len(old_line))
        start_diff == StartDiff(new_line, old_line)
        end_diff == EndDiff(new_line, old_line, start_diff)
        w1 == IF start_diff < min_len /\ start_diff <= end_diff
                    /\ end_diff < max_width
                THEN addstr(w, size, i, start_diff,
                            Slice(new_line, start_diff, end_diff + 1), A_NORMAL)
                ELSE w
        segment_start == Max(Len(old_line), start_diff)
        clear_length == Min(max_width - Len(new_line),
                            Len(old_line) - Len(new_line))
    IN  IF Len(new_line) > Len(old_line)
          THEN IF segment_start < Len(new_line) /\ segment_start < max_width
                 THEN addstr(w1, size, i, segment_start,
                             Slice(new_line, segment_start,
                                   Min(max_width, Len(new_line))), A_NORMAL)
                 ELSE w1
          ELSE IF Len(old_line) > Len(new_line) /\ clear_length > 0
                 THEN addstr(w1, size, i, Len(new_line), Spaces(clear_length),
                             A_NORMAL)
                 ELSE w1

\* The body of the for loop for line i.
UpdateRow(w, size, i, new_line, old_line, maxx) ==
    LET max_width == maxx - 1
    IN  IF new_line = old_line THEN w
        ELSE IF RewriteWhole(new_line, old_line, max_width)
               THEN addstr(clrtoeol(w, i, 0), size, i, 0, new_line, A_NORMAL)
               ELSE UpdateChars(w, size, i, new_line, old_line, max_width)

\* The for loop over the lines, from line i.
RECURSIVE UpdateRows(_, _, _, _, _, _, _)
UpdateRows(w, size, frame_lines, old_lines, maxx, i, num_lines) ==
    IF i >= num_lines
      THEN w
      ELSE UpdateRows(UpdateRow(w, size, i, LineAt(frame_lines, i),
                                LineAt(old_lines, i), maxx),
                      size, frame_lines, old_lines, maxx, i + 1, num_lines)

\* The state when curses_loop has run its set-up: prev_frame_lines = [], the
\* size read, a cleared window.
InitMono ==
    /\ pcL = "loop"
    /\ win_size \in WinSizes
    /\ prev_lines = <<>>
    /\ win_max_y = win_size[1] /\ win_max_x = win_size[2]
    /\ window = BlankWin
    /\ win_resizes = 0

\* The operator resizes the terminal window.
MonoResize ==
    /\ pcL = "loop"
    /\ win_resizes < MaxResizes
    /\ \E sz \in WinSizes : sz # win_size /\ win_size' = sz
    /\ win_resizes' = win_resizes + 1
    /\ UNCHANGED <<pcL, prev_lines, win_max_y, win_max_x, window>>
    /\ UNCHANGED <<stopV, notMono>>

\* One iteration of the loop in which ascii_queue.get returned ascii_frame; q
\* tells whether the getch at its end returns 'q'.
MonoFrame ==
    /\ pcL = "loop"
    /\ ~stop_event
    /\ \E ascii_frame \in MonoStrings :
         \E frame_lines \in {Split(ascii_frame)} :
           LET num_lines == Min(Max(Len(frame_lines), Len(prev_lines)), win_size[1])
           IN  /\ window' = UpdateRows(window, win_size, frame_lines, prev_lines,
                                    win_size[2], 0, num_lines)
               /\ prev_lines' = frame_lines
    /\ win_max_y' = win_size[1] /\ win_max_x' = win_size[2]
    /\ \E q \in BOOLEAN : IF q THEN SetStop("key") ELSE UNCHANGED stopV
    /\ UNCHANGED <<pcL, win_size, win_resizes>>
    /\ UNCHANGED notMono

\* An iteration in which ascii_queue.get raised queue.Empty: getch, continue.
MonoEmpty ==
    /\ pcL = "loop"
    /\ ~stop_event
    /\ \E q \in BOOLEAN : IF q THEN SetStop("key") ELSE UNCHANGED stopV
    /\ UNCHANGED varsMono
    /\ UNCHANGED notMono

\* while not stop_event.is_set() ends the loop.
MonoExit ==
    /\ pcL = "loop"
    /\ stop_event
    /\ pcL' = "done"
    /\ UNCHANGED <<win_size, prev_lines, win_max_y, win_max_x, window, win_resizes>>
    /\ UNCHANGED <<stopV, notMono>>

NextMono == MonoResize \/ MonoFrame \/ MonoEmpty \/ MonoExit

\* ============================================================ audio player
\* AudioPlayer's callback and sync hints.  Times are whole ticks of 25 ms
\* (sync_tolerance = 0.1 s is 4 ticks); a sample lasts TicksPerSample ticks,
\* so int(t * samplerate) is t \div TicksPerSample.

\* self.sync_tolerance = 0.1
SyncTolerance == 4


\* int(t * self.samplerate)
SampleIndex(t) == t \div TicksPerSample

\* The comparison that decides a resynchronisation (in the hint and in the
\* callback): abs(audio_time - t) > sync_tolerance.
Apart(a, t) == Abs(a - t) > SyncTolerance

\* self.audio_time += frames / self.samplerate, from audio time a.
NotAdvanced(a, frames) == a
Advanced(a, frames) == a + frames * TicksPerSample

\* The while loop over sync_queue in the callback, from audio time a and
\* start index start: each set_time command that is apart from the audio
\* time moves the audio time and the start index to it.
RECURSIVE Drain(_, _, _)
Drain(a, start, q) ==
    IF q = <<>>
      THEN [audio_time |-> a, start_idx |-> start]
      ELSE IF Apart(a, Head(q))
             THEN Drain(Head(q), SampleIndex(Head(q)), Tail(q))
             ELSE Drain(a, start, Tail(q))

\* The copy into outdata of the frames from start_idx on: the index of the
\* first sample, the samples copied, the zeros that follow them, and whether
\* the end of the audio was met (should_stop.set(); return sd.CallbackStop).
CopyOutNoStop(start_idx, frames) ==
    LET remaining == Max(AudioLen - start_idx, 0)
    IN  IF start_idx + frames <= AudioLen
          THEN [start |-> start_idx, copied |-> frames, zeros |-> 0, stop |-> FALSE]
          ELSE [start |-> start_idx, copied |-> remaining,
                zeros |-> frames - remaining, stop |-> FALSE]
CopyOut(start_idx, frames) ==
    LET remaining == Max(AudioLen - start_idx, 0)
    IN  IF start_idx + frames <= AudioLen
          THEN [start |-> start_idx, copied |-> frames, zeros |-> 0, stop |-> FALSE]
          ELSE [start |-> start_idx, copied |-> remaining,
                zeros |-> frames - remaining, stop |-> TRUE]

\* The player after __init__.
InitAudio ==
    /\ audio_time = 0 /\ video_time = 0
    /\ sync_queue = <<>>
    /\ should_stop = FALSE /\ callback_stop = FALSE
    /\ delivered = [start |-> 0, copied |-> 0, zeros |-> 0]
    /\ hint_apart = FALSE /\ callback_owed = FALSE
    /\ pcT = "none" /\ pcS = "idle" /\ started = "no"
    /\ initialized = FALSE /\ playback_started = FALSE
    /\ stream = "none" /\ stream_state = "none" /\ audio_array = "none"

\* start() with initialize() succeeding: the audio is loaded and the audio
\* thread is started.  (One playback is followed: start() is not called again
\* after a successful start or after stop().)
AudioStart ==
    /\ pcT = "none" /\ pcS = "idle"
    /\ audio_array' = "loaded" /\ initialized' = TRUE
    /\ pcT' = "starting" /\ started' = "yes"
    /\ UNCHANGED <<pcS, playback_started, stream, stream_state>>
    /\ UNCHANGED <<audio_time, video_time, sync_queue, should_stop, callback_stop,
                   delivered, hint_apart, callback_owed>>
    /\ UNCHANGED notAudio

\* start() with initialize() returning False (no audio track, or an error):
\* start returns False and no thread is started.
AudioStartFails ==
    /\ pcT = "none" /\ pcS = "idle" /\ started = "no"
    /\ started' = "failed"
    /\ UNCHANGED <<pcT, pcS, initialized, playback_started, stream, stream_state,
                   audio_array>>
    /\ UNCHANGED <<audio_time, video_time, sync_queue, should_stop, callback_stop,
                   delivered, hint_apart, callback_owed>>
    /\ UNCHANGED notAudio

\* _audio_thread_func: the arguments of sd.OutputStream are evaluated;
\* len(self.audio_array.shape) raises when stop() has released the array, and
\* the thread ends in its except clause.
ThreadArgs ==
    /\ pcT = "starting"
    /\ pcT' = IF audio_array = "none" THEN "done" ELSE "open"
    /\ UNCHANGED <<pcS, started, initialized, playback_started, stream,
                   stream_state, audio_array>>
    /\ UNCHANGED <<audio_time, video_time, sync_queue, should_stop, callback_stop,
                   delivered, hint_apart, callback_owed>>
    /\ UNCHANGED notAudio

\* with sd.OutputStream(...) as self.stream: playback_started = True
ThreadOpen ==
    /\ pcT = "open"
    /\ stream' = "set" /\ stream_state' = "active"
    /\ playback_started' = TRUE
    /\ pcT' = "playing"
    /\ UNCHANGED <<pcS, started, initialized, audio_array>>
    /\ UNCHANGED <<audio_time, video_time, sync_queue, should_stop, callback_stop,
                   delivered, hint_apart, callback_owed>>
    /\ UNCHANGED notAudio

\* while not self.should_stop.is_set(): sleep; leaving the with block closes
\* the stream.
ThreadExit ==
    /\ pcT = "playing"
    /\ should_stop
    /\ stream_state' = "closed"
    /\ pcT' = "done"
    /\ UNCHANGED <<pcS, started, initialized, playback_started, stream, audio_array>>
    /\ UNCHANGED <<audio_time, video_time, sync_queue, should_stop, callback_stop,
                   delivered, hint_apart, callback_owed>>
    /\ UNCHANGED notAudio

\* What stop() does when it finds should_stop already set: it returns.
StopWhenSet == "returned"

\* stop() up to the join: return if should_stop is set, else set it and join
\* the audio thread for at most 100 ms.
StopCall ==
    /\ pcS \in {"idle", "returned"}
    /\ pcS' = IF should_stop THEN StopWhenSet ELSE "join"
    /\ should_stop' = TRUE
    /\ UNCHANGED <<pcT, started, initialized, playback_started, stream,
                   stream_state, audio_array>>
    /\ UNCHANGED <<audio_time, video_time, sync_queue, callback_stop,
                   delivered, hint_apart, callback_owed>>
    /\ UNCHANGED notAudio

\* stop() after the join: the stream, if self.stream is set, is aborted (an
\* error from abort is logged) and self.stream cleared; the array is released
\* and the flags are cleared.
StopFinish ==
    /\ pcS = "join"
    /\ stream' = "none"
    /\ stream_state' = IF stream = "set" /\ stream_state = "active"
                         THEN "aborted" ELSE stream_state
    /\ audio_array' = "none"
    /\ initialized' = FALSE /\ playback_started' = FALSE
    /\ pcS' = "returned"
    /\ UNCHANGED <<pcT, started>>
    /\ UNCHANGED <<audio_time, video_time, sync_queue, should_stop, callback_stop,
                   delivered, hint_apart, callback_owed>>
    /\ UNCHANGED notAudio

\* update_video_time(current_time); the video clock does not run backwards.
UpdateVideoTime ==
    /\ \E current_time \in video_time..MaxHintTime :
         /\ video_time' = current_time
         /\ IF Apart(audio_time, current_time)
              THEN /\ Len(sync_queue) < MaxSync
                   /\ sync_queue' = Append(sync_queue, current_time)
                   /\ hint_apart' = TRUE
              ELSE UNCHANGED <<sync_queue, hint_apart>>
    /\ callback_owed' = FALSE
    /\ UNCHANGED <<audio_time, should_stop, callback_stop, delivered, lifeV>>
    /\ UNCHANGED notAudio

\* _audio_callback(outdata, frames, ...) called by the audio device.
AudioCallback ==
    /\ stream_state = "active" /\ audio_array = "loaded"
    /\ ~callback_stop
    /\ \E frames \in 1..MaxBlock :
         LET start_idx == SampleIndex(audio_time)
         IN  IF start_idx >= AudioLen
               THEN \* outdata.fill(0); should_stop.set(); return CallbackStop
                    /\ delivered' = [start |-> start_idx, copied |-> 0, zeros |-> frames]
                    /\ should_stop' = TRUE /\ callback_stop' = TRUE
                    /\ UNCHANGED <<audio_time, sync_queue>>
               ELSE \E d \in {Drain(Advanced(audio_time, frames),
                                    start_idx, sync_queue)} :
                    \E out \in {CopyOut(d.start_idx, frames)} :
                      /\ audio_time' = d.audio_time
                      /\ sync_queue' = <<>>
                      /\ delivered' = [start |-> out.start, copied |-> out.copied,
                                       zeros |-> out.zeros]
                      /\ IF out.stop
                           THEN should_stop' = TRUE /\ callback_stop' = TRUE
                           ELSE UNCHANGED <<should_stop, callback_stop>>
    /\ callback_owed' = hint_apart
    /\ hint_apart' = FALSE
    /\ UNCHANGED <<video_time, lifeV>>
    /\ UNCHANGED notAudio

NextAudio ==
    \/ AudioStart \/ AudioStartFails \/ ThreadArgs \/ ThreadOpen \/ ThreadExit
    \/ StopCall \/ StopFinish
    \/ UpdateVideoTime \/ AudioCallback

\* ============================================================== conversion
\* The three conversion functions, main's choice among them, and what the
\* chosen renderer makes of the item.  A decoded frame is of one colour, so
\* cv2.resize and cv2.cvtColor give every pixel that colour, as <<R, G, B>>.

\* ASCII_CHARS, the glyphs from the lightest to the darkest; the grave accent,
\* which a string of this language cannot hold, is written "GRAVE".
ASCII_CHARS ==
    <<" ", ".", "'", "GRAVE", "^", "\"", ",", ":", ";", "I", "l", "!", "i", "~",
      "+", "_", "-", "?", "]", "[", "}", "{", "1", ")", "(", "|", "\\", "/",
      "t", "f", "j", "r", "x", "n", "u", "v", "c", "z", "X", "Y", "U", "J",
      "C", "L", "Q", "0", "O", "Z", "m", "w", "q", "p", "d", "b", "k", "h",
      "a", "o", "*", "#", "M", "W", "&", "8", "%", "B", "@">>

\* The values of a colour channel (uint8).
Channels == 0..255

\* .astype(np.uint8) and .astype(np.uint16): the value modulo 2^8 and 2^16.
U8(x) == x % 256
U16As8(x) == x % 256
U16(x) == x % 65536

\* int(aspect_ratio * new_width * 0.5) with aspect_ratio = height / width,
\* computed exactly (the floating-point product gives the same integer for
\* the frame sizes of the model).
NewHeightNotHalved(frame, new_width) == (frame.height * new_width) \div frame.width
NewHeight(frame, new_width) == (frame.height * new_width) \div (2 * frame.width)

\* np.mean(rgb_frame, axis=2).astype(np.uint8)
brightness(px) == U8((px[1] + px[2] + px[3]) \div 3)

\* (brightness.astype(np.uint16) * (len(ASCII_CHARS) - 1) // 255).astype(np.uint8)
char_indices(b) == U8(U16(U16(b) * (Len(ASCII_CHARS) - 1)) \div 255)

\* ASCII_LUT[char_indices]
ascii_chars(px) == ASCII_CHARS[char_indices(brightness(px)) + 1]

\* (channel.astype(np.uint16) * 6) // 256
Channel6Over255(c) == U16(U16(c) * 6) \div 255
Channel6(c) == U16(U16(c) * 6) \div 256

\* color_indices = 16 + 36 * r6 + 6 * g6 + b6 in uint16
color_indices(px) ==
    U16(U16(U16(16 + U16(36 * Channel6(px[1]))) + U16(6 * Channel6(px[2])))
        + Channel6(px[3]))

\* What no conversion has returned yet, and a conversion that raised.
NoItem == [variant |-> "none", value |-> <<>>]
Raised == [variant |-> "raised", value |-> <<>>]

\* "\n".join(rows)
RECURSIVE JoinLines(_)
JoinLines(rows) ==
    IF rows = <<>> THEN <<>>
    ELSE IF Len(rows) = 1 THEN rows[1]
    ELSE rows[1] \o <<NL>> \o JoinLines(Tail(rows))

\* One pixel of frame_to_ascii's string: the colour escape with the channels
\* printed by "%d", the glyph, the reset escape.
AnsiPixel(px) ==
    <<"ESC[38;2;" \o ToString(px[1]) \o ";" \o ToString(px[2]) \o ";"
        \o ToString(px[3]) \o "m",
      ascii_chars(px),
      "ESC[0m">>

\* cv2.resize(frame, (new_width, new_height)) raises for a height of 0.
ResizeRaises(new_height) == new_height = 0

\* frame_to_ascii((frame, new_width)): a string with ANSI escapes.
frame_to_ascii(frame, new_width) ==
    LET new_height == NewHeight(frame, new_width)
    IN  IF ResizeRaises(new_height) THEN Raised
        ELSE [variant |-> "AnsiText",
              value |-> JoinLines([i \in 1..new_height |->
                            Join([j \in 1..new_width |-> AnsiPixel(frame.pixel)])])]

\* frame_to_ascii_curses((frame, new_width)): a string of glyphs.
frame_to_ascii_curses(frame, new_width) ==
    LET new_height == NewHeight(frame, new_width)
    IN  IF ResizeRaises(new_height) THEN Raised
        ELSE [variant |-> "PlainText",
              value |-> JoinLines([i \in 1..new_height |->
                            [j \in 1..new_width |-> ascii_chars(frame.pixel)]])]

\* frame_to_ascii_curses_color((frame, new_width)): rows of (char, color_index).
frame_to_ascii_curses_color(frame, new_width) ==
    LET new_height == Max(NewHeight(frame, new_width), 1)
    IN  [variant |-> "ColorCells",
         value |-> [i \in 0..(new_height - 1) |->
                       [j \in 0..(new_width - 1) |->
                           <<ascii_chars(frame.pixel), color_indices(frame.pixel)>>]]]

\* main: the conversion function and the renderer chosen from the flags.
ConversionForColorFlag(uc, cc) ==
    IF cc THEN "frame_to_ascii_curses_color"
    ELSE IF uc THEN "frame_to_ascii_curses" ELSE "frame_to_ascii"
ConversionFor(uc, cc) ==
    IF uc THEN IF cc THEN "frame_to_ascii_curses_color" ELSE "frame_to_ascii_curses"
    ELSE "frame_to_ascii"
RendererFor(uc, cc) ==
    IF uc THEN IF cc THEN "render_frames_curses_color" ELSE "render_frames_curses"
    ELSE "render_frames_sys_partial"

\* conversion_function((frame, new_width)) for the function chosen.
ApplyConversion(fn, frame, new_width) ==
    CASE fn = "frame_to_ascii" -> frame_to_ascii(frame, new_width)
      [] fn = "frame_to_ascii_curses" -> frame_to_ascii_curses(frame, new_width)
      [] fn = "frame_to_ascii_curses_color" ->
             frame_to_ascii_curses_color(frame, new_width)

\* What each renderer does first with an item: the two string renderers call
\* ascii_frame.split("\n"), the colour renderer takes len(new_frame) and
\* unpacks (char, color) pairs from the rows.  ok is false when that raises.
NotRendered == [ok |-> TRUE, rows |-> 0]
RenderRows(renderer, item) ==
    IF renderer = "render_frames_curses_color"
      THEN IF item.variant = "ColorCells"
             THEN [ok |-> TRUE, rows |-> Len0(item.value)]
             ELSE [ok |-> FALSE, rows |-> 0]
      ELSE IF item.variant \in {"AnsiText", "PlainText"}
             THEN [ok |-> TRUE, rows |-> Len(Split(item.value))]
             ELSE [ok |-> FALSE, rows |-> 0]

\* The variants each renderer is written for: the ANSI renderer writes the
\* string's lines as they are, render_frames_curses puts each character of a
\* line in one screen column, the colour renderer reads (char, color) cells.
RendererConsumes(renderer) ==
    CASE renderer = "render_frames_sys_partial" -> {"AnsiText", "PlainText"}
      [] renderer = "render_frames_curses" -> {"PlainText"}
      [] renderer = "render_frames_curses_color" -> {"ColorCells"}

\* The pixels tried: each channel over all its values beside two equal
\* channels at the bottom, the middle and the top.
ChannelSamples == {0, 128, 255}
Pixels ==
    UNION {{<<c, v, v>>, <<v, c, v>>, <<v, v, c>>} : c \in Channels, v \in ChannelSamples}

\* The frame sizes tried, of a mid-gray frame.
SizedFrames ==
    [height : 1..MaxSide, width : 1..MaxSide, pixel : {<<128, 128, 128>>}]
\* The colours tried, of a square frame.
ColouredFrames == [height : {MaxSide}, width : {MaxSide}, pixel : Pixels]

InitConv ==
    /\ pcV = "select"
    /\ arg_use_curses \in BOOLEAN /\ arg_curses_color \in BOOLEAN
    /\ \/ decoded \in SizedFrames /\ width_arg \in 1..MaxWidth
       \/ decoded \in ColouredFrames /\ width_arg = MaxWidth
    /\ conversion_fn = "none" /\ renderer_fn = "none"
    /\ converted = NoItem /\ rendered = NotRendered

\* main: if args.use_curses: if args.curses_color: ... else: ... else: ...
SelectFunctions ==
    /\ pcV = "select"
    /\ conversion_fn' = ConversionFor(arg_use_curses, arg_curses_color)
    /\ renderer_fn' = RendererFor(arg_use_curses, arg_curses_color)
    /\ pcV' = "convert"
    /\ UNCHANGED <<inputV, converted, rendered>>
    /\ UNCHANGED notConv

\* The converter applies the chosen function to (frame, args.width); a result
\* goes to ascii_queue, an exception ends the converter.
ConvertFrame ==
    /\ pcV = "convert"
    /\ converted' = ApplyConversion(conversion_fn, decoded, width_arg)
    /\ pcV' = IF converted' = Raised THEN "done" ELSE "render"
    /\ UNCHANGED <<inputV, conversion_fn, renderer_fn, rendered>>
    /\ UNCHANGED notConv

\* The chosen renderer takes the item off ascii_queue.
RenderItem ==
    /\ pcV = "render"
    /\ rendered' = RenderRows(renderer_fn, converted)
    /\ pcV' = "done"
    /\ UNCHANGED <<inputV, conversion_fn, renderer_fn, converted>>
    /\ UNCHANGED notConv

NextConv == SelectFunctions \/ ConvertFrame \/ RenderItem

\* ------------------------------------------------------- specifications
\* The ANSI renderer's variables while another state machine runs.
IdleAnsi ==
    /\ pcA = "idle"
    /\ prev_frame_lines = NoneLines
    /\ term_size = [columns |-> 80, lines |-> 24]
    /\ prev_terminal_size = term_size
    /\ term = [grid |-> BlankGrid, row |-> 1, col |-> 1, cursor |-> "shown"]
    /\ writes = <<>>

\* The pipeline's variables while another state machine runs.
IdlePipe ==
    /\ fps = 1 /\ batch_size = 1 /\ use_curses = FALSE /\ opened = TRUE
    /\ pcE = "idle" /\ nread = 0 /\ cur = EOS /\ ext_cause = "none"
    /\ raw_queue = <<>> /\ ascii_queue = <<>>
    /\ stop_event = FALSE /\ stop_cause = "none"
    /\ pcC = "idle" /\ batch = <<>> /\ slot = 0 /\ ascii_frames = <<>>
    /\ conv_failed = FALSE
    /\ pcR = "idle" /\ polled = "unread"
    /\ pcM = "idle" /\ pool_closed = FALSE
    /\ put_hist = <<>> /\ painted = <<>>

\* The curses colour renderer's variables while another state machine runs.
IdleColor ==
    /\ pcK = "idle"
    /\ COLORS = 256 /\ COLOR_PAIRS = 64
    /\ frame_shape = <<1, 1>>
    /\ scr_size = <<MaxCells, MaxCells>>
    /\ prev_frame = <<>>
    /\ max_y = scr_size[1] /\ max_x = scr_size[2]
    /\ color_pair_cache = <<>> /\ next_pair_number = 1 /\ pair_table = <<>>
    /\ stdscr = ClearedWindow
    /\ runs = <<>>
    /\ resized = FALSE
    /\ failed_writes = 0
    /\ attr_call = NoCall

\* The curses monochrome renderer's variables while another state machine
\* runs.
IdleMono ==
    /\ pcL = "idle"
    /\ win_size = <<WinRows, WinCols>>
    /\ prev_lines = <<>>
    /\ win_max_y = win_size[1] /\ win_max_x = win_size[2]
    /\ window = BlankWin
    /\ win_resizes = 0

\* The audio player's variables while another state machine runs.
IdleAudio ==
    /\ audio_time = 0 /\ video_time = 0
    /\ sync_queue = <<>>
    /\ should_stop = FALSE /\ callback_stop = FALSE
    /\ delivered = [start |-> 0, copied |-> 0, zeros |-> 0]
    /\ hint_apart = FALSE /\ callback_owed = FALSE
    /\ pcT = "idle" /\ pcS = "idle" /\ started = "no"
    /\ initialized = FALSE /\ playback_started = FALSE
    /\ stream = "none" /\ stream_state = "none" /\ audio_array = "none"

\* The conversion's variables while another state machine runs.
IdleConv ==
    /\ pcV = "idle"
    /\ arg_use_curses = FALSE /\ arg_curses_color = FALSE
    /\ decoded = [height |-> 1, width |-> 1, pixel |-> <<0, 0, 0>>]
    /\ width_arg = 1
    /\ conversion_fn = "none" /\ renderer_fn = "none"
    /\ converted = NoItem /\ rendered = NotRendered

Init == InitPipe /\ IdleAnsi /\ IdleColor /\ IdleMono /\ IdleAudio /\ IdleConv
Spec == Init /\ [][NextPipe]_vars

InitA == IdlePipe /\ InitAnsi /\ IdleColor /\ IdleMono /\ IdleAudio /\ IdleConv
SpecAnsi == InitA /\ [][NextAnsi]_vars

InitK == IdlePipe /\ IdleAnsi /\ InitColor /\ IdleMono /\ IdleAudio /\ IdleConv
SpecColor == InitK /\ [][NextColor]_vars
SpecColorFail == InitK /\ [][NextColorFail]_vars

InitG == IdlePipe /\ IdleAnsi /\ InitPairs /\ IdleMono /\ IdleAudio /\ IdleConv
SpecPairs == InitG /\ [][NextPairs]_vars

InitL == IdlePipe /\ IdleAnsi /\ IdleColor /\ InitMono /\ IdleAudio /\ IdleConv
SpecMono == InitL /\ [][NextMono]_vars

InitP == IdlePipe /\ IdleAnsi /\ IdleColor /\ IdleMono /\ InitAudio /\ IdleConv
SpecAudio == InitP /\ [][NextAudio]_vars

InitV == IdlePipe /\ IdleAnsi /\ IdleColor /\ IdleMono /\ IdleAudio /\ InitConv
SpecConv == InitV /\ [][NextConv]_vars

\* ------------------------------------------------------- ANSI claims
\* The grid shows exactly these lines: every cell of a line shows its
\* character and every other cell is blank.
GridShows(grid, lines) ==
    \A r \in 1..GridRows : \A c \in 1..GridCols :
        grid[r][c] = IF r <= Len(lines) /\ c <= Len(lines[r])
                       THEN Shows(lines[r][c]) ELSE " "

\* C8: after every frame the ANSI renderer has processed, the terminal grid
\* (which showed the previous mirror before) equals the new frame on all rows,
\* with nothing of the old frame left visible.
C8_AnsiDiffCorrect ==
    (pcA = "loop" /\ prev_frame_lines # NoneLines) =>
        GridShows(term.grid, prev_frame_lines)

\* The writes of the finally block: a text of newlines only, then SHOW_CURSOR.
IsPad(w) ==
    /\ Len(w) = 1 /\ w[1].k = "text" /\ Len(w[1].s) >= 1
    /\ \A j \in 1..Len(w[1].s) : w[1].s[j] = NL

\* C16: the cursor is hidden while the ANSI renderer's loop runs, and when the
\* renderer has ended - the loop left on the stop signal, or an exception
\* raised while a frame was processed - its last two writes are the newline
\* pad and SHOW_CURSOR, and the terminal's cursor is shown.
C16_CursorRestored ==
    /\ pcA = "loop" => term.cursor = "hidden"
    /\ pcA = "done" =>
          /\ Len(writes) >= 2
          /\ IsPad(writes[Len(writes) - 1])
          /\ writes[Len(writes)] = <<SHOW_CURSOR>>
          /\ term.cursor = "shown"

\* C16 witness: after a resize the clear sequence was written, then the
\* processing of the frame raised and the renderer ended.
C16_Witness ==
    /\ pcA = "done" /\ Len(writes) = 3 /\ writes[1] = <<CLEAR_SCREEN>>
    /\ prev_frame_lines = NoneLines

\* A step in which the loop has processed a frame and goes on.
FrameStep == pcA = "loop" /\ pcA' = "loop" /\ term_size' = term_size

\* A frame is processed while a mirror exists and the terminal size is the
\* one recorded.
DiffStep ==
    FrameStep /\ prev_frame_lines # NoneLines /\ term_size = prev_terminal_size

\* A frame is processed after the terminal size has changed.
ResizeStep == FrameStep /\ term_size # prev_terminal_size

\* The row indices of the new frame whose line is not the mirror's line (a
\* row the mirror lacks counts as an empty line).
ChangedRows(new, old) ==
    {i \in 0..(Len(new) - 1) : new[i + 1] # LineAt(old, i)}

\* str is line followed by spaces only.
LineThenSpaces(str, line) ==
    /\ Len(str) >= Len(line)
    /\ SubSeq(str, 1, Len(line)) = line
    /\ \A j \in (Len(line) + 1)..Len(str) : str[j] = " "

C22_ResizeClearsAndRepaints ==
    [][ResizeStep =>
          /\ Len(writes') >= 1 /\ writes'[1] = <<CLEAR_SCREEN>>
          /\ Join(Tail(writes')) = <<Text(JoinLines(prev_frame_lines'))>>
          /\ prev_frame_lines' # NoneLines
          /\ prev_terminal_size' = term_size']_vars

\* C22 witness: after a resize a frame of two rows was written in full behind
\* the clear sequence.
C22_Witness ==
    /\ pcA = "loop" /\ Len(writes) = 2 /\ writes[1] = <<CLEAR_SCREEN>>
    /\ writes[2] = <<Text(<<WhitePixel, NL>>)>> /\ Len(prev_frame_lines) = 2
    /\ prev_terminal_size = term_size

\* The rows of the cursor moves of a write, in the order written.
MoveRows(w) ==
    LET moves == SelectSeq(w, LAMBDA tok : tok.k = "goto")
    IN  [n \in 1..Len(moves) |-> moves[n].row]

\* C23: everything the loop writes for one frame, the frame after a terminal
\* resize included, is one write, and its cursor moves are in ascending row
\* order.
C23_SingleWritePerFrame ==
    pcA = "loop" =>
        /\ Len(writes) <= 1
        /\ \A n \in 1..Len(writes) :
               \A a, b \in 1..Len(MoveRows(writes[n])) :
                   a < b => MoveRows(writes[n])[a] < MoveRows(writes[n])[b]

\* C24: a rewritten line is followed by spaces exactly when it has fewer
\* cells than the mirror's line, as many spaces as cells are missing; escape
\* sequences take no cell, so a line of as many cells gets no space.
C24_PadToVisibleWidth ==
    [][DiffStep =>
          LET w == Join(writes')
          IN  \A n \in 1..Len(w) :
                 w[n].k = "text" =>
                    LET i == w[n - 1].row - 1
                        new_line == prev_frame_lines'[i + 1]
                        old_line == LineAt(prev_frame_lines, i)
                    IN  w[n].s = new_line \o
                                   Spaces(Max(0, Len(old_line) - Len(new_line)))]_vars

\* ------------------------------------------------------- pipeline claims
\* Position of x in s (x occurs in s).
PosIn(s, x) == CHOOSE i \in 1..Len(s) : s[i] = x

\* C1: the frames the renderer dequeued and painted appear in the relative
\* order in which extract_frames put them on raw_queue: of two painted
\* frames, the one painted first was put on raw_queue first.
C1_OrderPreserved ==
    \A i, j \in 1..Len(painted) :
        i < j =>
            /\ painted[i].src \in Range(put_hist)
            /\ painted[j].src \in Range(put_hist)
            /\ PosIn(put_hist, painted[i].src) < PosIn(put_hist, painted[j].src)

\* C1 witness: batches of two frames were converted and four frames painted.
C1_Witness == batch_size = 2 /\ Len(batch) = 2 /\ Len(painted) >= 4

\* C2: neither queue ever holds more than 3 * fps items, and a producer at a
\* put on a full queue cannot complete the put.
C2_QueueBound ==
    /\ Len(raw_queue) <= 3 * fps
    /\ Len(ascii_queue) <= 3 * fps
    /\ (pcE \in {"put", "finally"} /\ Len(raw_queue) = 3 * fps)
          => ~ENABLED (ExtPut \/ ExtFinally)
    /\ (pcC = "put" /\ Len(ascii_queue) = 3 * fps) => ~ENABLED ConvPut

\* C2 witness: the renderer has stopped consuming, both queues are full and
\* both producers are waiting at their put.
C2_Witness ==
    /\ pcR = "done"
    /\ pcC = "put" /\ Len(ascii_queue) = 3 * fps
    /\ pcE = "put" /\ Len(raw_queue) = 3 * fps

\* C3: when the stop came from the end of the stream and no conversion raised,
\* a renderer that has exited has painted every frame the extractor put on
\* raw_queue before the EOS marker.
C3_DrainsOnEOS ==
    (pcR = "done" /\ stop_cause = "eos" /\ ~conv_failed) =>
        \A k \in 1..Len(put_hist) :
            put_hist[k] # EOS => conversion_function(put_hist[k]) \in Range(painted)

\* C4: no stage is blocked forever once stop is set: the converter is never at
\* a put on a full ascii_queue after the renderer, its only consumer, has exited.
C4_NoStagePutsForever ==
    ~(stop_event /\ pcR = "done" /\ pcC = "put" /\ Len(ascii_queue) >= 3 * fps)

\* C5: whenever the conversion raised inside convert_frames, the stop signal
\* is set.
C5_FailureSetsStop == conv_failed => stop_event

\* C6: what extract_frames put on raw_queue is the frames in read order, then
\* at most one EOS marker and nothing after it; once the extractor of a source
\* that opened has ended (end of video, read failure or KeyboardInterrupt)
\* the EOS marker is there.
C6_FramesThenOneEOS ==
    /\ \A i \in 1..Len(put_hist) : put_hist[i] = EOS => i = Len(put_hist)
    /\ \A i \in 1..Len(put_hist) : put_hist[i] # EOS => put_hist[i] = i
    /\ (pcE = "done" /\ opened) =>
          (put_hist # <<>> /\ put_hist[Len(put_hist)] = EOS)

\* C6 witness: the extractor ended by KeyboardInterrupt after putting frames.
C6_Witness == pcE = "done" /\ ext_cause = "interrupt" /\ Len(put_hist) >= 3

\* C7: an extractor that has returned because the source did not open has put
\* the EOS marker on raw_queue.
C7_OpenFailureEmitsEOS == (pcE = "done" /\ ~opened) => EOS \in Range(put_hist)

\* The AsciiFrames convert_frames has put on ascii_queue, in insertion order:
\* those the renderer has taken off, then those still queued.
AsciiPut == painted \o ascii_queue

\* The frames extract_frames has put on raw_queue, in order.
FramesPut == SelectSeq(put_hist, LAMBDA f : f # EOS)

\* convert_frames has taken the EOS marker off raw_queue.
EosDequeued == EOS \in Range(put_hist) /\ EOS \notin Range(raw_queue)

\* What batch_size = 1 gives for a frame sequence: each frame converted alone,
\* one after the other.
OneByOne(frames) == [i \in 1..Len(frames) |-> conversion_function(frames[i])]

\* C11: for every batch_size and every arrival timing, what convert_frames has
\* put on ascii_queue is at any moment a prefix of what batch_size = 1 gives
\* for the same input frames, and once it has taken the EOS marker and ended
\* without a conversion error it is the whole of that sequence.
C11_BatchSizeIndependent ==
    /\ Len(AsciiPut) <= Len(FramesPut)
    /\ AsciiPut = SubSeq(OneByOne(FramesPut), 1, Len(AsciiPut))
    /\ (pcC = "done" /\ EosDequeued /\ ~conv_failed) =>
          AsciiPut = OneByOne(FramesPut)

\* C11 witness: with batch_size = 2 the converter took an odd number of frames
\* and the EOS marker and ended, so a batch of one frame was converted too.
C11_Witness ==
    /\ batch_size = 2 /\ pcC = "done" /\ EosDequeued /\ ~conv_failed
    /\ Len(AsciiPut) = 3 /\ Len(batch) = 1

\* A loop iteration of the renderer ends: the get timed out, or a frame was
\* taken and painted.
IterationDone == pcR = "get" /\ pcR' = "check"

\* C18: in the curses renderers every loop iteration, with or without a frame,
\* reads the keyboard; a read returning 'q' sets the stop signal in that
\* iteration, and from then on the renderer is at its loop test or ended and
\* paints no further frame.
C18_KeyQStops ==
    /\ [](polled = "q" => (stop_event /\ pcR \in {"check", "done"}))
    /\ [][/\ (IterationDone /\ use_curses) => polled' \in {"none", "q"}
          /\ (IterationDone /\ polled' = "q") => stop_event'
          /\ polled = "q" => painted' = painted]_vars

\* C18 witness: a curses renderer that had painted read 'q' and ended with
\* frames still waiting in ascii_queue.
C18_Witness ==
    /\ use_curses /\ polled = "q" /\ pcR = "done"
    /\ Len(painted) >= 1 /\ ascii_queue # <<>>

\* C19: when the stop signal was set by convert_frames on taking the EOS
\* marker, no frame of the batch collected before the marker is still waiting
\* to be converted or to be put on ascii_queue.
C19_StopAfterFlush ==
    (stop_event /\ stop_cause = "eos") => pcC \notin {"convert", "put"}

\* C20: once the stop signal is set, an extractor whose source had opened and
\* that has ended - by itself or at the hands of main - has put the EOS marker
\* on raw_queue.
C20_ExtractorEndsWithEOS ==
    (stop_event /\ opened /\ pcE \in {"done", "killed"}) =>
        EOS \in Range(put_hist)

\* The items convert_frames has taken off raw_queue, in order: what was put
\* on the queue and is no longer in it.
Dequeued == SubSeq(put_hist, 1, Len(put_hist) - Len(raw_queue))

\* The frames among them.
FramesDequeued == SelectSeq(Dequeued, LAMBDA f : f # EOS)

\* C33: as long as no conversion has raised, the items convert_frames has put
\* on ascii_queue are, one per frame and in order, the conversions of a prefix
\* of the frames it has taken off raw_queue; a batch never holds more than
\* batch_size frames, an empty batch is never given to the pool, and the EOS
\* marker is never in a batch nor converted nor put on ascii_queue.
C33_ConverterConserves ==
    ~conv_failed =>
        /\ Len(AsciiPut) <= Len(FramesDequeued)
        /\ \A k \in 1..Len(AsciiPut) :
               AsciiPut[k] = conversion_function(FramesDequeued[k])
        /\ Len(batch) <= batch_size
        /\ pcC \in {"convert", "put"} => batch # <<>>
        /\ EOS \notin Range(batch)
        /\ \A k \in 1..Len(ascii_frames) : ascii_frames[k].src # EOS
        /\ \A k \in 1..Len(AsciiPut) : AsciiPut[k].src # EOS

\* C33 witness: with batches of two, a full batch and then the one frame
\* collected before the EOS marker were converted and put on ascii_queue.
C33_Witness ==
    /\ ~conv_failed /\ batch_size = 2 /\ EosDequeued
    /\ Len(FramesDequeued) = 3 /\ Len(AsciiPut) = 3 /\ Len(batch) = 1

\* ------------------------------------------------------- colour claims
\* The cells of the last frame that are on the screen: inside the frame and
\* inside the window, when the window has not been resized since.
VisibleCells ==
    {yx \in (0..(frame_shape[1] - 1)) \X (0..(frame_shape[2] - 1)) :
        yx[1] < max_y /\ yx[2] < max_x}

\* A frame has been drawn, the window has not been resized since, and no
\* addstr has raised since the window was last cleared.
FramePainted ==
    prev_frame # <<>> /\ scr_size = <<max_y, max_x>> /\ failed_writes = 0

ColorFrameStep ==
    /\ pcK = "loop"
    /\ <<prev_frame, runs, max_y, max_x>>' # <<prev_frame, runs, max_y, max_x>>

\* The mirror's cell the frame's cell at line y, column x is compared with:
\* blank after a resize and where the mirror has no line.
MirrorCell(y, x) ==
    IF scr_size # <<max_y, max_x>> \/ y >= Len0(prev_frame)
      THEN BlankCell ELSE prev_frame[y][x]

\* The attribute a palette index resolves to in the frame just processed.
ResolvedAttr(color_index) ==
    IF color_index \in DOMAIN color_pair_cache'
      THEN color_pair_cache'[color_index] ELSE A_NORMAL

\* C25: every string the colour renderer writes for a frame lies in one row
\* inside the frame and the window, and consists of the characters of cells
\* that all differ from the mirror and all resolve to the string's attribute;
\* it is maximal (the cell before it and the cell after it is equal to the
\* mirror, resolves to another attribute, or does not exist), and the strings
\* of one row do not overlap.  So no cell equal to the mirror is written.
C25_RunsMaximal ==
    [][ColorFrameStep =>
          LET F == prev_frame'
              nrows == Min(Len0(F), scr_size[1])
              ncols(y) == Min(Len0(F[y]), scr_size[2])
              Differs(y, x) == F[y][x] # MirrorCell(y, x)
              Attr(y, x) == ResolvedAttr(F[y][x][2])
              Last(r) == r.x + Len(r.str) - 1
          IN  /\ \A n \in 1..Len(runs') :
                     LET r == runs'[n]
                     IN  /\ r.y \in 0..(nrows - 1)
                         /\ Len(r.str) >= 1 /\ r.x >= 0 /\ Last(r) < ncols(r.y)
                         /\ \A x \in r.x..Last(r) :
                                /\ Differs(r.y, x)
                                /\ Attr(r.y, x) = r.attr
                                /\ r.str[x - r.x + 1] = F[r.y][x][1]
                         /\ r.x > 0 =>
                                (~Differs(r.y, r.x - 1) \/ Attr(r.y, r.x - 1) # r.attr)
                         /\ Last(r) + 1 < ncols(r.y) =>
                                (~Differs(r.y, Last(r) + 1)
                                    \/ Attr(r.y, Last(r) + 1) # r.attr)
              /\ \A n, k \in 1..Len(runs') :
                     (n # k /\ runs'[n].y = runs'[k].y) =>
                        (Last(runs'[n]) < runs'[k].x \/ Last(runs'[k]) < runs'[n].x)]_vars

\* C25 witness: a row of two cells of the two colours of a checkerboard, with
\* both colours already in use before and no resize, was written as two
\* strings of one cell each.
C25_Witness ==
    /\ pcK = "loop" /\ ~resized /\ frame_shape = <<1, 2>> /\ max_x >= 2
    /\ prev_frame # <<>>
    /\ prev_frame[0] = (0 :> <<"@", 196>> @@ 1 :> <<"@", 21>>)
    /\ Len(runs) = 2 /\ runs[1].attr # runs[2].attr
    /\ {21, 196} \subseteq DOMAIN color_pair_cache
    /\ color_pair_cache[196] > color_pair_cache[21]
    /\ runs[1].x = 0 /\ runs[1].str = <<"@">>
    /\ runs[2].x = 1 /\ runs[2].str = <<"@">>

\* C26: when an addstr of the colour renderer has raised, the mirror does not
\* hold the frame's cells at the places of that string, so that the next
\* frame finds them differing and writes them again.
C26_FailedWriteRetried ==
    pcK = "loop" =>
        \A n \in 1..Len(runs) :
            ~runs[n].ok =>
                \A k \in 1..Len(runs[n].cells) :
                    prev_frame[runs[n].y][runs[n].x + k - 1] # runs[n].cells[k]

\* The pair numbers of the cache are 1 .. n for its n palette indices, each
\* below COLOR_PAIRS, no two indices sharing one.
PairsConsecutive ==
    /\ \A i \in DOMAIN color_pair_cache :
           color_pair_cache[i] \in 1..(COLOR_PAIRS - 1)
    /\ \A i, j \in DOMAIN color_pair_cache :
           i # j => color_pair_cache[i] # color_pair_cache[j]
    /\ {color_pair_cache[i] : i \in DOMAIN color_pair_cache}
           = 1..Cardinality(DOMAIN color_pair_cache)

\* A step keeps every cached palette index at its pair number and the pair
\* as it was initialised.
PairsKept ==
    \A i \in DOMAIN color_pair_cache :
        /\ i \in DOMAIN color_pair_cache'
        /\ color_pair_cache'[i] = color_pair_cache[i]
        /\ pair_table'[color_pair_cache[i]] = pair_table[color_pair_cache[i]]

\* A call made when next_pair_number has reached COLOR_PAIRS with a palette
\* index not cached returns the default attribute and allocates nothing.
ExhaustedGivesDefault ==
    (next_pair_number >= COLOR_PAIRS
       /\ attr_call'.color_index \notin DOMAIN color_pair_cache) =>
        /\ attr_call'.attr = A_NORMAL
        /\ UNCHANGED cacheK

\* C32: after any sequence of get_color_attr calls every cached palette index
\* has a pair number in 1 .. COLOR_PAIRS-1, distinct indices have distinct
\* numbers, allocated consecutively from 1; a cached index keeps its number
\* and its pair is not initialised again; and once next_pair_number has
\* reached COLOR_PAIRS an uncached index gets the default attribute and no
\* pair.
C32_PairCache ==
    /\ []PairsConsecutive
    /\ [][PairsKept /\ ExhaustedGivesDefault]_vars

\* C32 witness: on a terminal of three colour pairs two palette indices hold
\* pairs 1 and 2, and the call for a third index returned the default
\* attribute.
C32_Witness ==
    /\ pcK = "calls" /\ COLOR_PAIRS = 3 /\ next_pair_number = 3
    /\ Cardinality(DOMAIN color_pair_cache) = 2
    /\ attr_call.color_index \in PaletteTried \ DOMAIN color_pair_cache
    /\ attr_call.attr = A_NORMAL

\* ------------------------------------------------------- monochrome claims
\* The character line i of the window shows at column c.
Shown(i, c) == window[i][c][1]

\* The character the mirror's frame has at line i, column c: blank where the
\* line has ended or the frame has no such line.
Wanted(i, c) ==
    IF i < Len(prev_lines) /\ c < Len(prev_lines[i + 1])
      THEN prev_lines[i + 1][c + 1] ELSE " "

\* C27: while the terminal keeps its size, after the writes for a frame every
\* column below max_x - 1 of every line of the window shows the new line's
\* character at that column, or a blank where the new line has ended: nothing
\* of the old line remains and no differing cell is left unwritten.
C27_RowShowsNewLine ==
    (pcL = "loop" /\ win_resizes = 0) =>
        \A i \in 0..(win_max_y - 1) : \A c \in 0..(win_max_x - 2) :
            Shown(i, c) = Wanted(i, c)

\* ------------------------------------------------------- audio claims
\* C10: after the callback that follows a hint at which the clocks were more
\* than sync_tolerance apart, the audio time is within sync_tolerance of the
\* video time (the latest hint), or the callback has signalled end-of-stream.
C10_SyncAfterHint ==
    callback_owed => (~Apart(audio_time, video_time) \/ callback_stop)

\* A step of _audio_callback: the only steps that move the audio time or
\* signal end-of-stream.
CallbackStep ==
    /\ stream_state = "active" /\ audio_array = "loaded" /\ ~callback_stop
    /\ (audio_time' # audio_time \/ callback_stop')

\* The frames the device asked the callback for.
Frames(d) == d.copied + d.zeros

\* C28: after every callback that does not signal end-of-stream, a snapping
\* one included, the sample index of audio_time is one past the last sample
\* copied, so that the next callback continues where this one ended.
C28_NextSample ==
    [][(CallbackStep /\ ~callback_stop') =>
          SampleIndex(audio_time') = delivered'.start + delivered'.copied]_vars

\* The audio time after each of the first k commands of q, from a.
RECURSIVE TimeAfter(_, _, _)
TimeAfter(a, q, k) ==
    IF k = 0 THEN a
    ELSE LET before == TimeAfter(a, q, k - 1)
         IN  IF Abs(before - q[k]) > SyncTolerance THEN q[k] ELSE before

\* The commands of q that snap, from a.
Snapping(a, q) ==
    {k \in 1..Len(q) : Abs(TimeAfter(a, q, k - 1) - q[k]) > SyncTolerance}

\* C29: a callback that goes on to drain the queue first advances audio_time
\* by N samples; a set_time(t) snaps exactly when the audio time the
\* callback then holds is more than sync_tolerance from t; the audio time
\* becomes the time of the last command that snapped and the delivery starts
\* at its sample index; with no snap the advanced time stays and the
\* delivery starts where the audio time stood at entry.
C29_SnapIffApart ==
    [][(CallbackStep /\ SampleIndex(audio_time) < AudioLen) =>
          LET N == Frames(delivered')
              adv == audio_time + N * TicksPerSample
              snaps == Snapping(adv, sync_queue)
          IN  IF snaps = {}
                THEN /\ audio_time' = adv
                     /\ delivered'.start = SampleIndex(audio_time)
                ELSE LET t == sync_queue[CHOOSE k \in snaps : \A l \in snaps : l <= k]
                     IN  /\ audio_time' = t
                         /\ delivered'.start = SampleIndex(t)]_vars

\* C29 witness: the first callback left the audio time at one sample, a hint
\* of MaxHintTime was queued, and the next callback snapped to it and
\* delivered from its sample index.
C29_Witness ==
    /\ audio_time = MaxHintTime /\ ~callback_stop
    /\ delivered.start = SampleIndex(MaxHintTime) /\ delivered.copied >= 1

\* C30: a callback whose start index is at or past the end of the audio
\* delivers only zeros; one whose span crosses the end copies the samples
\* that remain and pads with zeros; both set the stop signal and signal
\* end-of-stream; a span inside the audio is copied whole and end-of-stream
\* is not signalled; no sample outside the audio is read.
C30_EndOfAudio ==
    [][CallbackStep =>
          LET N == Frames(delivered')
              start == delivered'.start
          IN  /\ N \in 1..MaxBlock
              /\ start >= AudioLen =>
                    /\ delivered'.copied = 0 /\ delivered'.zeros = N
                    /\ should_stop' /\ callback_stop'
              /\ (start < AudioLen /\ start + N > AudioLen) =>
                    /\ delivered'.copied = AudioLen - start
                    /\ delivered'.zeros = N - (AudioLen - start)
                    /\ should_stop' /\ callback_stop'
              /\ start + N <= AudioLen =>
                    /\ delivered'.copied = N /\ delivered'.zeros = 0
                    /\ ~callback_stop' /\ should_stop' = should_stop
              /\ delivered'.copied > 0 =>
                    (start >= 0 /\ start + delivered'.copied <= AudioLen)]_vars

\* C30 witness: the last callback asked for two frames with one sample left:
\* it copied the sample, padded one zero and signalled end-of-stream.
C30_Witness ==
    /\ delivered = [start |-> AudioLen - 1, copied |-> 1, zeros |-> 1]
    /\ should_stop /\ callback_stop

\* ------------------------------------------------------- conversion claims
\* The rows of an item as sequences of its tokens: the lines of a string, the
\* characters of the rows of a list of cells.
ItemRows(item) ==
    IF item.variant = "ColorCells"
      THEN [i \in 1..Len0(item.value) |->
              [j \in 1..Len0(item.value[i - 1]) |-> item.value[i - 1][j - 1][1]]]
      ELSE Split(item.value)

\* The glyphs of a row (escape sequences take no column).
VisibleWidth(row) ==
    Cardinality({j \in 1..Len(row) : row[j] \in Range(ASCII_CHARS)})

\* The conversion chosen by main has been applied to the frame.
Converted == pcV \in {"render", "done"}

\* C12: whichever converter is applied to a frame of size (W, H) with target
\* width w, it returns a frame with exactly max(1, floor(H/W * w * 0.5)) rows,
\* each of visible width w.
C12_RowsAndWidth ==
    Converted =>
        /\ converted.variant # "raised"
        /\ Len(ItemRows(converted)) = Max(1, NewHeight(decoded, width_arg))
        /\ \A i \in 1..Len(ItemRows(converted)) :
               VisibleWidth(ItemRows(converted)[i]) = width_arg

\* The conversion returned a frame.
GotFrame == Converted /\ converted.variant # "raised"

\* The glyphs of an item, row by row.
Glyphs(item) ==
    UNION {{ItemRows(item)[i][j] : j \in {k \in 1..Len(ItemRows(item)[i]) :
                                            ItemRows(item)[i][k] \in Range(ASCII_CHARS)}}
           : i \in 1..Len(ItemRows(item))}

\* C13: the glyph of every cell is the one at index floor(luma * 66 / 255) of
\* the ramp, with luma = floor((R + G + B) / 3); the index is in 0..66, the
\* product luma * 66 fits 16 unsigned bits, and the index computed for any
\* darker luma is not larger, for any lighter luma not smaller.
C13_GlyphMapping ==
    GotFrame =>
        LET px == decoded.pixel
            luma == (px[1] + px[2] + px[3]) \div 3
            index == (luma * 66) \div 255
        IN  /\ index \in 0..66
            /\ luma * 66 < 65536
            /\ Glyphs(converted) = {ASCII_CHARS[index + 1]}
            /\ \A l \in Channels :
                  /\ l <= luma => char_indices(l) <= index
                  /\ l >= luma => char_indices(l) >= index

\* C13 witness: frame_to_ascii_curses turned a white pixel into the last glyph
\* of the ramp.
C13_Witness ==
    /\ GotFrame /\ conversion_fn = "frame_to_ascii_curses"
    /\ decoded.pixel = <<255, 255, 255>>
    /\ converted.value[1] = "@"

\* frame_to_ascii_curses has converted a mid-gray frame of 2 x 2 pixels at
\* target width 2.
GrayExample ==
    /\ GotFrame /\ conversion_fn = "frame_to_ascii_curses"
    /\ decoded = [height |-> 2, width |-> 2, pixel |-> <<128, 128, 128>>]
    /\ width_arg = 2

\* C31, as claimed: the mid-gray frame of 2 x 2 pixels at width 2 has luma 128
\* and glyph index 33, the glyph at index 33 is the double quote, and the
\* text is two rows of two double quotes joined by a newline.
C31_GrayExample ==
    GrayExample =>
        /\ brightness(decoded.pixel) = 128
        /\ char_indices(128) = 33
        /\ ASCII_CHARS[33 + 1] = "\""
        /\ converted.variant = "PlainText"
        /\ converted.value = <<"\"", "\"", NL, "\"", "\"">>

\* C31, amended: the mid-gray frame of 2 x 2 pixels at width 2 has luma 128
\* and glyph index 33, the glyph at index 33 is the letter n, and the text is
\* one row of two n, without a newline.
C31_GrayExampleAmended ==
    GrayExample =>
        /\ brightness(decoded.pixel) = 128
        /\ char_indices(128) = 33
        /\ ASCII_CHARS[33 + 1] = "n"
        /\ converted.variant = "PlainText"
        /\ converted.value = <<"n", "n">>

\* C31 witness: the monochrome curses renderer has taken the one row of the
\* converted mid-gray frame.
C31_Witness ==
    /\ GrayExample /\ pcV = "done"
    /\ renderer_fn = "render_frames_curses" /\ rendered.rows = 1

\* The palette indices of a ColorCells item.
PaletteIndices(item) ==
    UNION {{item.value[i][j][2] : j \in DOMAIN item.value[i]} : i \in DOMAIN item.value}

\* C14: every cell frame_to_ascii_curses_color returns has the palette index
\* 16 + 36 * floor(R*6/256) + 6 * floor(G*6/256) + floor(B*6/256), which is in
\* 16..231, and no product or sum on the way exceeds 16 unsigned bits.
C14_PaletteIndex ==
    (GotFrame /\ converted.variant = "ColorCells") =>
        LET px == decoded.pixel
            r6 == (px[1] * 6) \div 256
            g6 == (px[2] * 6) \div 256
            b6 == (px[3] * 6) \div 256
            index == 16 + 36 * r6 + 6 * g6 + b6
        IN  /\ PaletteIndices(converted) = {index}
            /\ index \in 16..231
            /\ \A c \in {px[1], px[2], px[3]} : c * 6 < 65536
            /\ 36 * r6 < 65536 /\ 6 * g6 < 65536 /\ index < 65536

\* C14 witness: a pure red pixel got palette index 196.
C14_Witness ==
    /\ GotFrame /\ converted.variant = "ColorCells"
    /\ decoded.pixel = <<255, 0, 0>>
    /\ converted.value[0][0][2] = 196

\* C15: for every combination of --use_curses and --curses_color, the item the
\* chosen conversion function returns is of a variant the chosen renderer
\* consumes, and the renderer takes it without a type error.
C15_VariantMatches ==
    /\ GotFrame => converted.variant \in RendererConsumes(renderer_fn)
    /\ pcV = "done" => rendered.ok

\* C15 witness: --curses_color without --use_curses; the ANSI renderer took an
\* AnsiText frame.
C15_Witness ==
    /\ arg_curses_color /\ ~arg_use_curses
    /\ pcV = "done" /\ converted.variant = "AnsiText"
    /\ renderer_fn = "render_frames_sys_partial" /\ rendered.rows >= 1

\* C17: once stop() has returned, the stop signal is set, self.stream is
\* cleared and the device's stream is not running, the PCM buffer is released
\* and the initialized and playback_started flags are false - whether the
\* player was never started, was playing, or had played to the end.
C17_StopReleases ==
    pcS = "returned" =>
        /\ should_stop
        /\ stream = "none" /\ stream_state # "active"
        /\ audio_array = "none"
        /\ ~initialized /\ ~playback_started

====
